---------------------------- MODULE Spec2Model ----------------------------
(***************************************************************************)
(* Metanet Docs: the debounced auto-save scheduler (hooks/useAutoSave.ts)  *)
(* and the document synchronizer of the NotesApp component (readIndex,     *)
(* writeIndex, withRetry, loadNotes, saveNote, deleteNote).                *)
(*                                                                         *)
(* Time is counted in ticks of 1000 ms.  A timer is the number of ticks    *)
(* left before it fires; time does not advance past a timer that is due.   *)
(***************************************************************************)
EXTENDS Integers, Sequences, FiniteSets, TLC

(***************************************************************************)
(* Bounds of the model.                                                    *)
(***************************************************************************)
\* the editing surface reports at most this many changes to one scheduler
MaxNotify == 3
\* at most this many save / delete / load operations and retries of
\* initializeWallet are started
MaxOps == 3
\* at most this many Remote Store calls are disturbed by failures
MaxFailures == 1
\* withRetry is called with at most this many attempts
MaxAttempts == 4
\* a record found at INDEX_KEY lists at most this many keys
MaxIndexLen == 2
\* at most this many Index operations are run one after the other
MaxIndexOps == 2
\* calls of initializeWallet, saveNote and deleteNote followed for the cache
MaxCacheOps == 4
\* save() calls made by the effect of the one DocumentEditor that is followed
MaxEdits == 2

(***************************************************************************)
(* Program constants, in ticks.                                            *)
(***************************************************************************)
\* useAutoSave(onSave, 3000) in DocumentEditor
Delay == 3
\* setTimeout(() => setSaveStatus('idle'), 2000) after a successful save
SavedWindow == 2
\* setTimeout(() => setSaveStatus('idle'), 3000) after a failed save
ErrorWindow == 3
\* withRetry(fn, attempts = 3, ...)
Attempts == 3
\* the delay of withRetry when delaysMs is empty, in ms
DefaultDelay == 500

VARIABLES
  \* ---- useAutoSave: the state of one scheduler instance ----
  saveStatus,      \* useState<SaveStatus>: idle | pending | saving | saved | error
  timeoutRef,      \* the armed debounce timers, as the set of their remaining ticks
  isSavingRef,     \* inFlightFlag
  hasPendingRef,   \* pendingFlag
  statusResets,    \* the status-reset timers: remaining ticks -> how many
  running,         \* invocations of saveFunctionRef.current() not yet settled
  flushAwaiting,   \* a flush() call is suspended at `await performSave()`
  flushSettled,    \* how the last flush() promise settled:
                   \*   none | immediate | afterSave | rejected
  unhandled,       \* a `void performSave()` promise of the timer callback rejected
  saveFnMode,      \* the caller-supplied save action: "any" outcome | "alwaysFail"
  \* ---- observers (history of the run, read by the properties only) ----
  nNotify,         \* save() calls made so far
  sinceNotify,     \* ticks since the last save() call, capped at Delay + 1
  execsSinceNotify,\* executions of the save action started since the last save() call
  cleanBurst,      \* the last save() call saw no save in flight; no cancel/flush since
  burstLen,        \* save() calls of the current burst (each < Delay after the previous)
  cancelled,       \* cancelSave() was called and no save() call since
  statusLog,       \* the values of saveStatus in the current one-notify cycle
  sinceSettle,     \* ticks since the save action last settled, capped at ErrorWindow + 1
  settled,         \* how the last execution ended, no scheduler call having been made
                   \*   since: ok | failed, and none otherwise
  \* ---- the Remote Store (LocalKVStore "notes") and localStorage ----
  kv,              \* document key -> stored value, for the keys that hold a value
  indexRec,        \* the record at INDEX_KEY: <<>> (absent) or <<the stored text>>
  cache,           \* the cache entry of the identity: <<>> (absent) or <<notes>>
  \* ---- NotesApp: React state ----
  kvStore,         \* useState<LocalKVStore | null>: FALSE while null
  identityKey,     \* useState<string | null>: <<>> (null) or <<key>>
  notes,           \* useState<Note[]>
  selectedNote,    \* useState<Note | null>: <<>> (null) or <<note>>
  editorTitle,
  editorContent,
  editorFormat,
  isNewNote,
  view,            \* grid | editor
  isSaving,
  showMetanetNotification,
  now,             \* Date.now()
  \* ---- NotesApp: the asynchronous operations in progress ----
  saveTask,        \* the saveNote call in progress, [pc |-> "idle"] when none
  deleteTask,      \* the deleteNote call in progress
  loadTask,        \* the loadNotes call in progress
  initTask,        \* the initializeWallet call in progress
  \* ---- environment budget and observers of the synchronizer ----
  nOps,            \* saveNote / deleteNote / loadNotes operations started
  nFail,           \* Remote Store calls that failed
  event,           \* what the last step reported: none | saveBlank | saveUnchanged |
                   \*   saveStarted | saveOk | saveError (toast) | saveUnreachable |
                   \*   deleteOk (toast) | deleteError (toast) | deleteUnreachable | loadOk |
                   \*   initError (toast) | initUnreachable | noStore
  savedClean,      \* the last save succeeded and the editor was not touched since its call
  deleted,         \* keys deleted without error and not saved again by a later call
  call,            \* how the store or wallet call of the last step ended: none | ok |
                   \*   fail | unreachable
  surfaced,        \* some load, save or delete has ended with a failure notification
  \* ---- one call of withRetry and one Index operation, followed on their own ----
  retryTask,       \* withRetry(fn, attempts, delaysMs): its position and what it did
  indexTask,       \* readIndex / addToIndex / removeFromIndex on its own
  \* ---- a second saveNote call in progress ----
  bgSave,          \* a saveNote call in progress beside saveTask; the steps of
                   \*   saveTask are followed, SwapSaves exchanges the two
  \* ---- the DocumentEditor whose scheduler instance is followed ----
  editor,          \* <<>> while it is not mounted, else <<its key and the
                   \*   title and content of initialValuesRef>>
  \* ---- two browsers that differ in another identity's cache entry only ----
  localStorage,    \* per browser: cache key -> <<>> (absent) or <<the stored text>>
  cacheTask        \* the session run in both: identity, the lists shown, calls in flight

schedVars == <<saveStatus, timeoutRef, isSavingRef, hasPendingRef, statusResets,
               running, flushAwaiting, flushSettled, unhandled, saveFnMode>>
obsVars == <<nNotify, sinceNotify, execsSinceNotify, cleanBurst, burstLen,
             cancelled, statusLog, sinceSettle, settled>>
storeVars == <<kv, indexRec, cache>>
appVars == <<notes, selectedNote, editorTitle, editorContent, editorFormat, isNewNote,
             view, isSaving, showMetanetNotification, now>>
walletVars == <<kvStore, identityKey, initTask>>
taskVars == <<saveTask, deleteTask, loadTask>>
syncObsVars == <<nOps, nFail, event, savedClean, deleted, call, surfaced>>
syncVars == <<storeVars, appVars, walletVars, taskVars, syncObsVars>>
cacheVars == <<localStorage, cacheTask>>
sideVars == <<bgSave, editor>>
auxVars == <<retryTask, indexTask, cacheVars, sideVars>>
vars == <<schedVars, obsVars, syncVars, auxVars>>

SaveStatus == {"idle", "pending", "saving", "saved", "error"}
ResetTimes == 0..ErrorWindow

Min(a, b) == IF a < b THEN a ELSE b

NoResets == [r \in ResetTimes |-> 0]

\* setTimeout(cb, w) for a status reset
AddReset(w) == [statusResets EXCEPT ![w] = @ + 1]

\* append to the log of the current cycle, when one is being recorded
Logged(s) == IF statusLog = <<>> \/ statusLog[Len(statusLog)] = s
             THEN statusLog ELSE Append(statusLog, s)

(***************************************************************************)
(* useAutoSave                                                             *)
(***************************************************************************)
SchedInit ==
  /\ saveStatus = "idle"
  /\ timeoutRef = {}
  /\ isSavingRef = FALSE
  /\ hasPendingRef = FALSE
  /\ statusResets = NoResets
  /\ running = 0
  /\ flushAwaiting = FALSE
  /\ flushSettled = "none"
  /\ unhandled = FALSE
  /\ saveFnMode \in {"any", "alwaysFail"}
  /\ nNotify = 0
  /\ sinceNotify = Delay + 1
  /\ execsSinceNotify = 0
  /\ cleanBurst = FALSE
  /\ burstLen = 0
  /\ cancelled = FALSE
  /\ statusLog = <<>>
  /\ sinceSettle = ErrorWindow + 1
  /\ settled = "none"

\* performSave, lines 88-92: the guard and the flags set before the await
PerformSaveGuard == ~isSavingRef

PerformSaveEnter_FlagNotSet ==
  /\ isSavingRef' = isSavingRef
  /\ hasPendingRef' = FALSE
  /\ saveStatus' = "saving"
  /\ running' = running + 1

PerformSaveEnter ==
  /\ isSavingRef' = TRUE
  /\ hasPendingRef' = FALSE
  /\ saveStatus' = "saving"
  /\ running' = running + 1

\* performSave, lines 94-112: what follows the await, by the action's outcome
StatusAfter(ok) == IF ok THEN "saved" ELSE "error"
WindowAfter(ok) == IF ok THEN SavedWindow ELSE ErrorWindow

\* the settlement of the promise performSave() returns: catch swallows a failure
PerformSaveResult_Rethrow(ok) == IF ok THEN "resolved" ELSE "rejected"

PerformSaveResult(ok) == "resolved"

\* finally { isSavingRef.current = false }
FlagAfterSettle_OnSuccessOnly == isSavingRef /\ saveStatus' = "error"

FlagAfterSettle == FALSE

\* the scheduler is at rest: a save() call now starts a fresh cycle
Quiescent ==
  /\ saveStatus = "idle"
  /\ timeoutRef = {}
  /\ ~isSavingRef
  /\ ~hasPendingRef
  /\ statusResets = NoResets
  /\ running = 0

\* save(), lines 118-137: the timers armed after the call
ArmedAfterSave_NoReset ==
  IF isSavingRef THEN {} ELSE IF timeoutRef # {} THEN timeoutRef ELSE {Delay}

ArmedAfterSave == IF isSavingRef THEN {} ELSE {Delay}

Sched_save ==
  /\ nNotify < MaxNotify
  /\ timeoutRef' = ArmedAfterSave
  /\ hasPendingRef' = TRUE
  /\ saveStatus' = "pending"
  /\ UNCHANGED <<isSavingRef, statusResets, running, flushAwaiting, flushSettled,
                 unhandled, saveFnMode>>
  /\ nNotify' = nNotify + 1
  /\ sinceNotify' = 0
  /\ execsSinceNotify' = 0
  /\ cleanBurst' = ~isSavingRef
  /\ burstLen' = IF cleanBurst /\ sinceNotify < Delay /\ execsSinceNotify = 0
                 THEN burstLen + 1 ELSE 1
  /\ cancelled' = FALSE
  /\ statusLog' = IF Quiescent THEN <<"idle", "pending">> ELSE <<>>
  /\ settled' = "none"
  /\ UNCHANGED sinceSettle

save == Sched_save /\ UNCHANGED <<syncVars, auxVars>>

\* cancelSave(), lines 142-151
StatusAfterCancel_Keep == saveStatus

StatusAfterCancel == IF isSavingRef THEN saveStatus ELSE "idle"

cancelSave ==
  /\ timeoutRef' = {}
  /\ hasPendingRef' = FALSE
  /\ saveStatus' = StatusAfterCancel
  /\ UNCHANGED <<isSavingRef, statusResets, running, flushAwaiting, flushSettled,
                 unhandled, saveFnMode>>
  /\ cleanBurst' = FALSE
  /\ cancelled' = TRUE
  /\ statusLog' = <<>>
  /\ settled' = "none"
  /\ UNCHANGED <<nNotify, sinceNotify, execsSinceNotify, burstLen, sinceSettle>>
  /\ UNCHANGED <<syncVars, auxVars>>

\* flush(), lines 157-166
FlushRuns == hasPendingRef /\ ~isSavingRef

Sched_flush ==
  /\ timeoutRef' = {}
  /\ IF FlushRuns /\ PerformSaveGuard
     THEN /\ PerformSaveEnter
          /\ flushAwaiting' = TRUE
          /\ UNCHANGED flushSettled
          /\ execsSinceNotify' = execsSinceNotify + 1
     ELSE /\ UNCHANGED <<isSavingRef, hasPendingRef, saveStatus, running, flushAwaiting>>
          /\ flushSettled' = "immediate"
          /\ UNCHANGED execsSinceNotify
  /\ UNCHANGED <<statusResets, unhandled, saveFnMode>>
  /\ cleanBurst' = FALSE
  /\ statusLog' = <<>>
  /\ settled' = "none"
  /\ UNCHANGED <<nNotify, sinceNotify, burstLen, cancelled, sinceSettle>>

flush == Sched_flush /\ UNCHANGED <<syncVars, auxVars>>

\* the debounce timer fires: () => { void performSave(); }, lines 134-136
Sched_TimerExpiry ==
  /\ 0 \in timeoutRef
  /\ timeoutRef' = timeoutRef \ {0}
  /\ IF PerformSaveGuard
     THEN /\ PerformSaveEnter
          /\ execsSinceNotify' = execsSinceNotify + 1
          /\ statusLog' = Logged("saving")
     ELSE /\ UNCHANGED <<isSavingRef, hasPendingRef, saveStatus, running>>
          /\ UNCHANGED <<execsSinceNotify, statusLog>>
  /\ UNCHANGED <<statusResets, flushAwaiting, flushSettled, unhandled, saveFnMode>>
  /\ settled' = IF PerformSaveGuard THEN "none" ELSE settled
  /\ UNCHANGED <<nNotify, sinceNotify, cleanBurst, burstLen, cancelled, sinceSettle>>

TimerExpiry == Sched_TimerExpiry /\ UNCHANGED <<syncVars, auxVars>>

\* the save action settles and performSave resumes after its await
Sched_SaveFunctionSettles(ok) ==
  /\ running > 0
  /\ saveFnMode = "alwaysFail" => ~ok
  /\ running' = running - 1
  /\ saveStatus' = StatusAfter(ok)
  /\ statusResets' = AddReset(WindowAfter(ok))
  /\ isSavingRef' = FlagAfterSettle
  /\ IF flushAwaiting
     THEN /\ flushAwaiting' = FALSE
          /\ flushSettled' = IF PerformSaveResult(ok) = "resolved"
                             THEN "afterSave" ELSE "rejected"
          /\ UNCHANGED unhandled
     ELSE /\ unhandled' = (unhandled \/ PerformSaveResult(ok) = "rejected")
          /\ UNCHANGED <<flushAwaiting, flushSettled>>
  /\ UNCHANGED <<timeoutRef, hasPendingRef, saveFnMode>>
  /\ statusLog' = Logged(StatusAfter(ok))
  /\ sinceSettle' = 0
  /\ settled' = IF ok THEN "ok" ELSE "failed"
  /\ UNCHANGED <<nNotify, sinceNotify, execsSinceNotify, cleanBurst, burstLen, cancelled>>

SaveFunctionSettles(ok) == Sched_SaveFunctionSettles(ok) /\ UNCHANGED <<syncVars, auxVars>>

\* a status-reset timer fires: () => { setSaveStatus('idle'); }
StatusReset ==
  /\ statusResets[0] > 0
  /\ statusResets' = [statusResets EXCEPT ![0] = @ - 1]
  /\ saveStatus' = "idle"
  /\ UNCHANGED <<timeoutRef, isSavingRef, hasPendingRef, running, flushAwaiting,
                 flushSettled, unhandled, saveFnMode>>
  /\ statusLog' = Logged("idle")
  /\ UNCHANGED <<nNotify, sinceNotify, execsSinceNotify, cleanBurst, burstLen,
                 cancelled, sinceSettle, settled>>
  /\ UNCHANGED <<syncVars, auxVars>>

\* one tick of time passes; no timer is overdue
Tick ==
  /\ 0 \notin timeoutRef
  /\ statusResets[0] = 0
  /\ timeoutRef' = {r - 1 : r \in timeoutRef}
  /\ statusResets' = [r \in ResetTimes |->
                        IF r < ErrorWindow THEN statusResets[r + 1] ELSE 0]
  /\ sinceNotify' = Min(sinceNotify + 1, Delay + 1)
  /\ sinceSettle' = Min(sinceSettle + 1, ErrorWindow + 1)
  /\ UNCHANGED <<saveStatus, isSavingRef, hasPendingRef, running, flushAwaiting,
                 flushSettled, unhandled, saveFnMode>>
  /\ UNCHANGED <<nNotify, execsSinceNotify, cleanBurst, burstLen, cancelled, statusLog,
                 settled>>
  /\ UNCHANGED <<syncVars, auxVars>>

SchedNext ==
  \/ save
  \/ cancelSave
  \/ flush
  \/ TimerExpiry
  \/ \E ok \in BOOLEAN : SaveFunctionSettles(ok)
  \/ StatusReset
  \/ Tick

(***************************************************************************)
(* Titles, keys and documents.  A title or key is a sequence of tokens, so *)
(* that trimming, the ".md" suffix and the order of keys are computed.     *)
(* A note's lastModified and timestamp are one field: loadNotes sets       *)
(* timestamp = lastModified || 0 and saveNote sets both to Date.now(), so  *)
(* 0 stands for an undefined lastModified.                                 *)
(***************************************************************************)
Md == ".md"
Space == " "
UntitledBase == "Untitled document"
Digits == <<"1", "2", "3", "4", "5", "6">>

\* what the user types into the title field
UserTitles == {<<"a">>}
EditableTitles == UserTitles \cup {<<Space>>}

Txt(c) == [text |-> c, raw |-> {}]
Contents == {Txt(""), Txt("x")}

\* String.prototype.trim
RECURSIVE TrimLeft(_)
TrimLeft(t) == IF t # <<>> /\ Head(t) = Space THEN TrimLeft(Tail(t)) ELSE t

RECURSIVE TrimRight(_)
TrimRight(t) ==
  IF t # <<>> /\ t[Len(t)] = Space THEN TrimRight(SubSeq(t, 1, Len(t) - 1)) ELSE t

Trim(t) == TrimRight(TrimLeft(t))

EndsWithMd(t) == t # <<>> /\ t[Len(t)] = Md

\* saveNote, lines 702-705
FileName(title) ==
  LET f == Trim(title) IN IF EndsWithMd(f) THEN f ELSE Append(f, Md)

\* loadNotes, lines 545-548
LoadTitle(path, dataTitle) ==
  IF EndsWithMd(path) THEN SubSeq(path, 1, Len(path) - 1) ELSE dataTitle

\* createNewNote, lines 609-616
UntitledTitle(k) ==
  IF k = 0 THEN <<UntitledBase>> ELSE <<UntitledBase, Space, Digits[k]>>

NewTitle(existing) ==
  UntitledTitle(CHOOSE k \in 0..Len(Digits) :
                  /\ UntitledTitle(k) \notin existing
                  /\ \A j \in 0..(k - 1) : UntitledTitle(j) \in existing)

\* the order of the first characters of the tokens (UTF-16 code units)
TokenRank(tok) ==
  CASE tok = Space -> 0
    [] tok = Md -> 1
    [] tok = UntitledBase -> 10
    [] tok = "a" -> 11
    [] tok = "b" -> 12
    [] OTHER -> 1 + (CHOOSE d \in 1..Len(Digits) : Digits[d] = tok)

\* p sorts before q in Array.prototype.sort's default order
RECURSIVE KeyLess(_, _)
KeyLess(p, q) ==
  IF p = <<>> THEN q # <<>>
  ELSE IF q = <<>> THEN FALSE
  ELSE IF Head(p) = Head(q) THEN KeyLess(Tail(p), Tail(q))
  ELSE TokenRank(Head(p)) < TokenRank(Head(q))

RECURSIVE SortKeys(_)
SortKeys(S) ==
  IF S = {} THEN <<>>
  ELSE LET m == CHOOSE x \in S : \A y \in S \ {x} : KeyLess(x, y)
       IN <<m>> \o SortKeys(S \ {m})

\* [...new Set(paths)].sort()
UniqueSorted_AsGiven(paths) == paths
UniqueSorted(paths) == SortKeys({paths[i] : i \in DOMAIN paths})

Includes(paths, path) == \E i \in DOMAIN paths : paths[i] = path

\* stringifyNoteData: the JSON text of the object
StringifyNoteData(data) == [json |-> data]

\* JavaScript truthiness of a contents string
Truthy(contents) == contents.text # "" \/ contents.raw # {}

\* parseNoteMessage: the modern JSON shape needs a truthy title and contents;
\* anything else is taken as legacy text, the whole message being the contents
ParseNoteMessage(message) ==
  LET parsed == message.json IN
  IF parsed.title # <<>> /\ Truthy(parsed.contents)
  THEN [title |-> parsed.title, contents |-> parsed.contents,
        format |-> parsed.format, lastModified |-> parsed.lastModified]
  ELSE [title |-> <<"{">>, contents |-> [text |-> "", raw |-> {message}],
        format |-> "markdown", lastModified |-> 0]

\* loadNotes, lines 540-560: the note built from the value stored at path
LoadedNote(path, message) ==
  LET data == ParseNoteMessage(message) IN
  [tokenId |-> path, title |-> LoadTitle(path, data.title),
   contents |-> data.contents, format |-> data.format,
   timestamp |-> data.lastModified]

\* loadedNotes.sort((a, b) => b.timestamp - a.timestamp): stable, descending
RECURSIVE InsertByTimestamp(_, _)
InsertByTimestamp(sorted, n) ==
  IF sorted = <<>> THEN <<n>>
  ELSE IF Head(sorted).timestamp >= n.timestamp
       THEN <<Head(sorted)>> \o InsertByTimestamp(Tail(sorted), n)
       ELSE <<n>> \o sorted

RECURSIVE SortByTimestamp(_)
SortByTimestamp(s) ==
  IF s = <<>> THEN <<>>
  ELSE InsertByTimestamp(SortByTimestamp(SubSeq(s, 1, Len(s) - 1)), s[Len(s)])

RECURSIVE Flatten(_)
Flatten(ss) == IF ss = <<>> THEN <<>> ELSE Head(ss) \o Flatten(Tail(ss))

KeysOf(list) == {list[i].tokenId : i \in DOMAIN list}

(***************************************************************************)
(* The Remote Store: kv is the set of <<key, value>> pairs it holds        *)
(***************************************************************************)
Outcomes == {"ok", "fail", "unreachable"}

\* the environment disturbs at most MaxFailures calls; a disturbed call that
\* withRetry repeats (attempt i > 0) may fail again
MayEnd(o, i) == o = "ok" \/ i > 0 \/ nFail < MaxFailures
Count(o, i) == nFail' = IF o = "ok" \/ i > 0 THEN nFail ELSE nFail + 1

HasKey(key) == \E e \in kv : e[1] = key
ValueAt(key) == (CHOOSE e \in kv : e[1] = key)[2]
StoreSet(key, value) == {e \in kv : e[1] # key} \cup {<<key, value>>}
StoreRemove(key) == {e \in kv : e[1] # key}

\* JSON.stringify of an array of keys.  A stored text is of kind "array" (the
\* JSON text of an array, paths being its elements), "json" (JSON, not an
\* array) or "text" (JSON.parse throws)
StringifyPaths(paths) == [kind |-> "array", paths |-> paths]

\* readIndex, lines 446-457: a failed get, an absent record, a text that does
\* not parse and a JSON value that is no array all read as the empty index
ReadIndex_Stored(o) == IF indexRec # <<>> THEN indexRec[1].paths ELSE <<>>
ReadIndex(o) ==
  IF o = "ok" /\ indexRec # <<>> /\ indexRec[1].kind = "array"
  THEN indexRec[1].paths ELSE <<>>

\* writeIndex, were the keys merged into the record found at the time of the
\* write
WrittenIndex_Merged(o, paths) ==
  IF o = "ok" THEN <<StringifyPaths(UniqueSorted(paths \o ReadIndex("ok")))>>
  ELSE indexRec

\* writeIndex, lines 466-473: a failed set is caught and logged
WrittenIndex(o, paths) ==
  IF o = "ok" THEN <<StringifyPaths(UniqueSorted(paths))>> ELSE indexRec

\* writeNotesCache, lines 499-508: nothing is written without an identity
WriteNotesCache(identity, list) == IF identity = <<>> THEN cache ELSE <<list>>

\* removeFromIndex, line 491
Without(idx, path) ==
  LET Keep(p) == p # path IN SelectSeq(idx, Keep)

\* withRetry, lines 656-667: after a failed attempt i, retry or give up
RetriesOf_OneMore(i, attempts) == i < attempts
RetriesOf(i, attempts) == i < attempts - 1
Retries(i) == RetriesOf(i, Attempts)

(***************************************************************************)
(* NotesApp                                                                *)
(***************************************************************************)
Idle == [pc |-> "idle"]

\* the notifications that tell the user an operation failed
Failures == {"saveError", "saveUnreachable", "deleteError", "deleteUnreachable",
             "loadError", "loadUnreachable"}

\* useState defaults, no operation running
AppInit ==
  /\ notes = <<>>
  /\ selectedNote = <<>>
  /\ editorTitle = <<>>
  /\ editorContent = Txt("")
  /\ editorFormat = "richtext"
  /\ isNewNote = FALSE
  /\ view = "grid"
  /\ isSaving = FALSE
  /\ showMetanetNotification = FALSE
  /\ now = 1
  /\ saveTask = Idle
  /\ deleteTask = Idle
  /\ loadTask = Idle
  /\ call = "none"
  /\ surfaced = FALSE
  /\ nOps = 0
  /\ nFail = 0
  /\ event = "none"
  /\ savedClean = FALSE
  /\ deleted = {}

Identity == "02ab"

\* lines 342, 349 and 356-358: the component has mounted, its effect has called
\* initializeWallet
Mounted ==
  /\ kvStore = FALSE
  /\ identityKey = <<>>
  /\ initTask = [pc |-> "i_auth", identity |-> <<>>]

\* lines 404-410 have run
WalletReady ==
  /\ kvStore = TRUE
  /\ identityKey = <<Identity>>
  /\ initTask = Idle

\* a new user in a fresh browser
EmptyStore ==
  /\ kv = {}
  /\ indexRec = <<>>
  /\ cache = <<>>

\* the synchronizer once initializeWallet and its first load have completed
\* against an empty store
SyncInit == AppInit /\ EmptyStore /\ WalletReady

\* the user touched the editor: a save in flight no longer covers what it shows
Touch == saveTask' = IF saveTask.pc = "idle" THEN saveTask
                     ELSE [saveTask EXCEPT !.touched = TRUE]

\* handleBackToGrid, were the save in progress given up
Detach_Abort == saveTask' = Idle

\* the DocumentEditor that called the save in flight unmounts (line 871): the
\* call goes on without it
Detach == saveTask' = IF saveTask.pc = "idle" THEN saveTask
                      ELSE [saveTask EXCEPT !.touched = TRUE, !.detached = TRUE]

\* createNewNote, lines 602-640
createNewNote ==
  /\ view = "grid"
  /\ IF ~kvStore
     THEN \* lines 603-606
          /\ showMetanetNotification' = TRUE
          /\ event' = "noStore"
          /\ UNCHANGED <<selectedNote, editorTitle, editorContent, editorFormat,
                         isNewNote, view, saveTask, savedClean>>
     ELSE /\ LET title == NewTitle({notes[i].title : i \in DOMAIN notes}) IN
             /\ selectedNote' = <<[tokenId |-> Append(title, Md), title |-> title,
                                   contents |-> Txt(""), format |-> "richtext",
                                   timestamp |-> now]>>
             /\ editorTitle' = title
          /\ editorContent' = Txt("")
          /\ editorFormat' = "richtext"
          /\ isNewNote' = TRUE
          /\ view' = "editor"
          /\ Touch
          /\ savedClean' = FALSE
          /\ event' = "none"
          /\ UNCHANGED showMetanetNotification
  /\ UNCHANGED <<storeVars, notes, isSaving, now>>
  /\ UNCHANGED <<deleteTask, loadTask, nOps, nFail, deleted>>
  /\ call' = "none"
  /\ surfaced' = (surfaced \/ event' \in Failures)
  /\ UNCHANGED <<schedVars, obsVars, walletVars, auxVars>>

\* selectNote, lines 827-835
selectNote(n) ==
  /\ view = "grid"
  /\ selectedNote' = <<n>>
  /\ editorTitle' = n.title
  /\ editorContent' = n.contents
  /\ editorFormat' = n.format
  /\ isNewNote' = FALSE
  /\ view' = "editor"
  /\ Touch
  /\ savedClean' = FALSE
  /\ event' = "none"
  /\ UNCHANGED <<storeVars, notes, isSaving, showMetanetNotification, now>>
  /\ UNCHANGED <<deleteTask, loadTask, nOps, nFail, deleted>>
  /\ call' = "none"
  /\ surfaced' = (surfaced \/ event' \in Failures)
  /\ UNCHANGED <<schedVars, obsVars, walletVars, auxVars>>

\* handleBackToGrid, lines 851-867
App_handleBackToGrid ==
  /\ view = "editor"
  /\ view' = "grid"
  /\ selectedNote' = <<>>
  /\ editorTitle' = <<>>
  /\ editorContent' = Txt("")
  /\ Detach
  /\ savedClean' = FALSE
  /\ event' = "none"
  /\ UNCHANGED <<storeVars, notes, editorFormat, isNewNote, isSaving,
                 showMetanetNotification, now>>
  /\ UNCHANGED <<deleteTask, loadTask, nOps, nFail, deleted>>
  /\ call' = "none"
  /\ surfaced' = (surfaced \/ event' \in Failures)
  /\ UNCHANGED walletVars

handleBackToGrid == App_handleBackToGrid /\ UNCHANGED <<schedVars, obsVars, auxVars>>

\* onTitleChange={setEditorTitle}
App_EditTitle(t) ==
  /\ view = "editor"
  /\ t # editorTitle
  /\ editorTitle' = t
  /\ Touch
  /\ savedClean' = FALSE
  /\ UNCHANGED <<storeVars, notes, selectedNote, editorContent, editorFormat, isNewNote,
                 view, isSaving, showMetanetNotification, now>>
  /\ event' = "none"
  /\ UNCHANGED <<deleteTask, loadTask, nOps, nFail, deleted>>
  /\ call' = "none"
  /\ surfaced' = (surfaced \/ event' \in Failures)
  /\ UNCHANGED walletVars

EditTitle(t) == App_EditTitle(t) /\ UNCHANGED <<schedVars, obsVars, auxVars>>

\* onContentChange={setEditorContent}
App_EditContent(c) ==
  /\ view = "editor"
  /\ c # editorContent
  /\ editorContent' = c
  /\ Touch
  /\ savedClean' = FALSE
  /\ UNCHANGED <<storeVars, notes, selectedNote, editorTitle, editorFormat, isNewNote,
                 view, isSaving, showMetanetNotification, now>>
  /\ event' = "none"
  /\ UNCHANGED <<deleteTask, loadTask, nOps, nFail, deleted>>
  /\ call' = "none"
  /\ surfaced' = (surfaced \/ event' \in Failures)
  /\ UNCHANGED walletVars

EditContent(c) == App_EditContent(c) /\ UNCHANGED <<schedVars, obsVars, auxVars>>

(***************************************************************************)
(* saveNote, lines 675-775                                                 *)
(***************************************************************************)
\* lines 681-691: nothing changed since the selected note was persisted
Unchanged ==
  /\ selectedNote # <<>>
  /\ ~isNewNote
  /\ editorContent = selectedNote[1].contents
  /\ editorTitle = selectedNote[1].title

\* line 713
IsRename(filename) ==
  selectedNote # <<>> /\ ~isNewNote /\ selectedNote[1].tokenId # filename

\* lines 713-729: the first store call of the save
FirstStep_SetFirst(rename) == "s_set"
FirstStep(rename) == IF rename THEN "s_remove" ELSE "s_set"

\* the call, up to its first await.  log lists the store steps of the save
\* completed so far: remove and set once the call has succeeded, indexRemove
\* and indexAdd once removeFromIndex / addToIndex has returned
App_saveNote ==
  /\ view = "editor"
  /\ kvStore
  /\ saveTask.pc = "idle"
  /\ IF bgSave = Idle THEN TRUE ELSE bgSave.detached
  /\ IF Trim(editorTitle) = <<>>
     THEN /\ event' = "saveBlank"
          /\ UNCHANGED <<saveTask, isSaving, now, nOps, deleted, savedClean>>
     ELSE IF Unchanged
     THEN /\ event' = "saveUnchanged"
          /\ UNCHANGED <<saveTask, isSaving, now, nOps, deleted, savedClean>>
     ELSE LET filename == FileName(editorTitle)
              rename == IsRename(filename) IN
          /\ nOps < MaxOps
          /\ nOps' = nOps + 1
          /\ event' = "saveStarted"
          /\ isSaving' = TRUE
          /\ saveTask' = [pc |-> FirstStep(rename), log |-> <<>>,
                          sel |-> selectedNote, title |-> editorTitle,
                          content |-> editorContent, format |-> editorFormat,
                          filename |-> filename, rename |-> rename,
                          i |-> 0, idx |-> <<>>, lastErr |-> "none",
                          stamp |-> IF rename THEN 0 ELSE now,
                          touched |-> FALSE, detached |-> FALSE]
          /\ now' = IF rename THEN now ELSE now + 1
          /\ deleted' = deleted \ {filename}
          /\ savedClean' = FALSE
  /\ UNCHANGED <<storeVars, notes, selectedNote, editorTitle, editorContent, editorFormat,
                 isNewNote, view, showMetanetNotification>>
  /\ UNCHANGED <<deleteTask, loadTask, nFail>>
  /\ call' = "none"
  /\ surfaced' = (surfaced \/ event' \in Failures)
  /\ UNCHANGED walletVars

saveNote == App_saveNote /\ UNCHANGED <<schedVars, obsVars, auxVars>>

\* lines 733-741
UpdatedNote(t) ==
  [tokenId |-> t.filename, title |-> t.title, contents |-> t.content,
   format |-> t.format, timestamp |-> t.stamp]

\* line 741: setIsNewNote(false)
IsNewAfterSave_Kept == isNewNote
IsNewAfterSave == FALSE

\* lines 744-749, were the updated note put last
NotesAfterSave_Last(t) ==
  LET Other(n) == /\ n.tokenId # t.filename
                  /\ t.sel # <<>> => n.tokenId # t.sel[1].tokenId
  IN SelectSeq(notes, Other) \o <<UpdatedNote(t)>>

\* lines 744-749
\* lines 744-749, were the entries of the saved key kept
NotesAfterSave_Unfiltered(t) == <<UpdatedNote(t)>> \o notes

NotesAfterSave(t) ==
  LET Other(n) == /\ n.tokenId # t.filename
                  /\ t.sel # <<>> => n.tokenId # t.sel[1].tokenId
  IN <<UpdatedNote(t)>> \o SelectSeq(notes, Other)

\* lines 733-751 and the finally block: the save has succeeded
SaveFinish(t) ==
  /\ selectedNote' = <<UpdatedNote(t)>>
  /\ isNewNote' = IsNewAfterSave
  /\ notes' = NotesAfterSave(t)
  /\ cache' = WriteNotesCache(identityKey, NotesAfterSave(t))
  /\ isSaving' = FALSE
  /\ saveTask' = Idle
  /\ event' = "saveOk"
  /\ savedClean' = ~t.touched
  /\ UNCHANGED showMetanetNotification

\* lines 752-770, were the note taken as persisted although the save failed
SaveFail_MarkSaved(err) ==
  /\ IF err = "unreachable"
     THEN showMetanetNotification' = TRUE /\ event' = "saveUnreachable"
     ELSE event' = "saveError" /\ UNCHANGED showMetanetNotification
  /\ isSaving' = FALSE
  /\ saveTask' = Idle
  /\ selectedNote' = <<UpdatedNote(saveTask)>>
  /\ isNewNote' = FALSE
  /\ UNCHANGED <<notes, cache, savedClean>>

\* lines 752-770: the catch and finally blocks
SaveFail(err) ==
  /\ IF err = "unreachable"
     THEN showMetanetNotification' = TRUE /\ event' = "saveUnreachable"
     ELSE event' = "saveError" /\ UNCHANGED showMetanetNotification
  /\ isSaving' = FALSE
  /\ saveTask' = Idle
  /\ UNCHANGED <<selectedNote, isNewNote, notes, cache, savedClean>>

\* line 716: await withRetry(() => kvStore.remove(selectedNote.tokenId))
SaveRemoveOld(o) ==
  /\ saveTask.pc = "s_remove"
  /\ MayEnd(o, saveTask.i) /\ Count(o, saveTask.i)
  /\ IF o = "ok"
     THEN /\ kv' = StoreRemove(saveTask.sel[1].tokenId)
          /\ saveTask' = [saveTask EXCEPT !.pc = "s_rmidx_read", !.i = 0,
                                          !.log = Append(@, "remove")]
          /\ event' = "none"
          /\ UNCHANGED <<cache, notes, selectedNote, isNewNote, isSaving,
                         showMetanetNotification, savedClean>>
     ELSE IF Retries(saveTask.i)
     THEN /\ saveTask' = [saveTask EXCEPT !.i = @ + 1, !.lastErr = o]
          /\ event' = "none"
          /\ UNCHANGED <<kv, cache, notes, selectedNote, isNewNote, isSaving,
                         showMetanetNotification, savedClean>>
     ELSE /\ SaveFail(o)
          /\ UNCHANGED kv
  /\ UNCHANGED <<indexRec, editorTitle, editorContent, editorFormat, view, now>>
  /\ UNCHANGED <<deleteTask, loadTask, nOps, deleted>>
  /\ call' = o
  /\ surfaced' = (surfaced \/ event' \in Failures)
  /\ UNCHANGED <<schedVars, obsVars, walletVars, auxVars>>

\* line 717, removeFromIndex: const idx = await readIndex(store)
SaveRemoveIndexRead(o) ==
  /\ saveTask.pc = "s_rmidx_read"
  /\ MayEnd(o, 0) /\ Count(o, 0)
  /\ saveTask' = [saveTask EXCEPT !.pc = "s_rmidx_write", !.idx = ReadIndex(o)]
  /\ UNCHANGED <<storeVars, appVars, deleteTask, loadTask>>
  /\ event' = "none"
  /\ UNCHANGED <<nOps, savedClean, deleted>>
  /\ call' = o
  /\ surfaced' = (surfaced \/ event' \in Failures)
  /\ UNCHANGED <<schedVars, obsVars, walletVars, auxVars>>

\* line 717, removeFromIndex: await writeIndex(store, next); then lines 720-729
\* build noteDataToSave and issue kvStore.set
SaveRemoveIndexWrite(o) ==
  /\ saveTask.pc = "s_rmidx_write"
  /\ MayEnd(o, 0) /\ Count(o, 0)
  /\ indexRec' = WrittenIndex(o, Without(saveTask.idx, saveTask.sel[1].tokenId))
  /\ saveTask' = [saveTask EXCEPT !.pc = "s_set", !.i = 0, !.idx = <<>>, !.stamp = now,
                                  !.log = Append(@, "indexRemove")]
  /\ now' = now + 1
  /\ UNCHANGED <<kv, cache, notes, selectedNote, editorTitle, editorContent, editorFormat,
                 isNewNote, view, isSaving, showMetanetNotification>>
  /\ event' = "none"
  /\ UNCHANGED <<deleteTask, loadTask>>
  /\ UNCHANGED <<nOps, savedClean, deleted>>
  /\ call' = o
  /\ surfaced' = (surfaced \/ event' \in Failures)
  /\ UNCHANGED <<schedVars, obsVars, walletVars, auxVars>>

\* lines 721-728
NoteDataToSave(t) ==
  [title |-> t.title, contents |-> t.content, format |-> t.format,
   lastModified |-> t.stamp]

\* line 729: await withRetry(() => kvStore.set(filename, stringifyNoteData(...)))
SaveSet(o) ==
  /\ saveTask.pc = "s_set"
  /\ MayEnd(o, saveTask.i) /\ Count(o, saveTask.i)
  /\ IF o = "ok"
     THEN /\ kv' = StoreSet(saveTask.filename, StringifyNoteData(NoteDataToSave(saveTask)))
          /\ saveTask' = [saveTask EXCEPT !.pc = "s_addidx_read", !.i = 0,
                                          !.log = Append(@, "set")]
          /\ event' = "none"
          /\ UNCHANGED <<cache, notes, selectedNote, isNewNote, isSaving,
                         showMetanetNotification, savedClean>>
     ELSE IF Retries(saveTask.i)
     THEN /\ saveTask' = [saveTask EXCEPT !.i = @ + 1, !.lastErr = o]
          /\ event' = "none"
          /\ UNCHANGED <<kv, cache, notes, selectedNote, isNewNote, isSaving,
                         showMetanetNotification, savedClean>>
     ELSE /\ SaveFail(o)
          /\ UNCHANGED kv
  /\ UNCHANGED <<indexRec, editorTitle, editorContent, editorFormat, view, now>>
  /\ UNCHANGED <<deleteTask, loadTask, nOps, deleted>>
  /\ call' = o
  /\ surfaced' = (surfaced \/ event' \in Failures)
  /\ UNCHANGED <<schedVars, obsVars, walletVars, auxVars>>

\* line 730, addToIndex: const idx = await readIndex(store); a key already
\* listed needs no write and the save finishes
SaveAddIndexRead(o) ==
  /\ saveTask.pc = "s_addidx_read"
  /\ MayEnd(o, 0) /\ Count(o, 0)
  /\ IF Includes(ReadIndex(o), saveTask.filename)
     THEN SaveFinish(saveTask)
     ELSE /\ saveTask' = [saveTask EXCEPT !.pc = "s_addidx_write", !.idx = ReadIndex(o)]
          /\ event' = "none"
          /\ UNCHANGED <<cache, notes, selectedNote, isNewNote, isSaving,
                         showMetanetNotification, savedClean>>
  /\ UNCHANGED <<kv, indexRec, editorTitle, editorContent, editorFormat, view, now>>
  /\ UNCHANGED <<deleteTask, loadTask, nOps, deleted>>
  /\ call' = o
  /\ surfaced' = (surfaced \/ event' \in Failures)
  /\ UNCHANGED <<schedVars, obsVars, walletVars, auxVars>>

\* line 730, addToIndex: idx.push(path); await writeIndex(store, idx)
SaveAddIndexWrite(o) ==
  /\ saveTask.pc = "s_addidx_write"
  /\ MayEnd(o, 0) /\ Count(o, 0)
  /\ indexRec' = WrittenIndex(o, Append(saveTask.idx, saveTask.filename))
  /\ SaveFinish(saveTask)
  /\ UNCHANGED <<kv, editorTitle, editorContent, editorFormat, view, now>>
  /\ UNCHANGED <<deleteTask, loadTask, nOps, deleted>>
  /\ call' = o
  /\ surfaced' = (surfaced \/ event' \in Failures)
  /\ UNCHANGED <<schedVars, obsVars, walletVars, auxVars>>

(***************************************************************************)
(* deleteNote, lines 781-822                                               *)
(***************************************************************************)
deleteNote(n) ==
  /\ view = "grid"
  /\ kvStore
  /\ deleteTask.pc = "idle"
  /\ nOps < MaxOps
  /\ nOps' = nOps + 1
  /\ deleteTask' = [pc |-> "d_remove", key |-> n.tokenId,
                    selMatch |-> (selectedNote # <<>> /\ selectedNote[1].tokenId = n.tokenId),
                    i |-> 0, idx |-> <<>>, lastErr |-> "none"]
  /\ UNCHANGED <<storeVars, appVars, saveTask, loadTask>>
  /\ event' = "none"
  /\ UNCHANGED <<nFail, savedClean, deleted>>
  /\ call' = "none"
  /\ surfaced' = (surfaced \/ event' \in Failures)
  /\ UNCHANGED <<schedVars, obsVars, walletVars, auxVars>>

\* lines 793-797
NotesAfterDelete(key) ==
  LET Keep(n) == n.tokenId # key IN SelectSeq(notes, Keep)

\* lines 791-807: the delete has succeeded
DeleteFinish(t) ==
  /\ notes' = NotesAfterDelete(t.key)
  /\ cache' = WriteNotesCache(identityKey, NotesAfterDelete(t.key))
  /\ IF t.selMatch
     THEN selectedNote' = <<>> /\ view' = "grid" /\ savedClean' = FALSE
     ELSE UNCHANGED <<selectedNote, view, savedClean>>
  /\ event' = "deleteOk"
  /\ deleteTask' = Idle
  /\ deleted' = deleted \cup {t.key}
  /\ UNCHANGED showMetanetNotification

\* a catch block that also drops the document from the list
DeleteFail_DropsFromList(err) ==
  /\ IF err = "unreachable"
     THEN showMetanetNotification' = TRUE /\ event' = "deleteUnreachable"
     ELSE event' = "deleteError" /\ UNCHANGED showMetanetNotification
  /\ deleteTask' = Idle
  /\ notes' = NotesAfterDelete(deleteTask.key)
  /\ UNCHANGED <<cache, selectedNote, view, savedClean, deleted>>

\* lines 808-821: the catch block
DeleteFail(err) ==
  /\ IF err = "unreachable"
     THEN showMetanetNotification' = TRUE /\ event' = "deleteUnreachable"
     ELSE event' = "deleteError" /\ UNCHANGED showMetanetNotification
  /\ deleteTask' = Idle
  /\ UNCHANGED <<notes, cache, selectedNote, view, savedClean, deleted>>

\* line 789: await withRetry(() => kvStore.remove(note.tokenId))
DeleteRemove(o) ==
  /\ deleteTask.pc = "d_remove"
  /\ MayEnd(o, deleteTask.i) /\ Count(o, deleteTask.i)
  /\ IF o = "ok"
     THEN /\ kv' = StoreRemove(deleteTask.key)
          /\ deleteTask' = [deleteTask EXCEPT !.pc = "d_rmidx_read", !.i = 0]
          /\ event' = "none"
          /\ UNCHANGED <<notes, cache, selectedNote, view, savedClean, deleted,
                         showMetanetNotification>>
     ELSE IF Retries(deleteTask.i)
     THEN /\ deleteTask' = [deleteTask EXCEPT !.i = @ + 1, !.lastErr = o]
          /\ event' = "none"
          /\ UNCHANGED <<kv, notes, cache, selectedNote, view, savedClean, deleted,
                         showMetanetNotification>>
     ELSE /\ DeleteFail(o)
          /\ UNCHANGED kv
  /\ UNCHANGED <<indexRec, editorTitle, editorContent, editorFormat, isNewNote,
                 isSaving, now>>
  /\ UNCHANGED <<saveTask, loadTask, nOps>>
  /\ call' = o
  /\ surfaced' = (surfaced \/ event' \in Failures)
  /\ UNCHANGED <<schedVars, obsVars, walletVars, auxVars>>

\* line 790, removeFromIndex: const idx = await readIndex(store)
DeleteIndexRead(o) ==
  /\ deleteTask.pc = "d_rmidx_read"
  /\ MayEnd(o, 0) /\ Count(o, 0)
  /\ deleteTask' = [deleteTask EXCEPT !.pc = "d_rmidx_write", !.idx = ReadIndex(o)]
  /\ event' = "none"
  /\ UNCHANGED <<storeVars, appVars, saveTask, loadTask>>
  /\ UNCHANGED <<nOps, savedClean, deleted>>
  /\ call' = o
  /\ surfaced' = (surfaced \/ event' \in Failures)
  /\ UNCHANGED <<schedVars, obsVars, walletVars, auxVars>>

\* line 790, removeFromIndex: await writeIndex(store, next)
DeleteIndexWrite(o) ==
  /\ deleteTask.pc = "d_rmidx_write"
  /\ MayEnd(o, 0) /\ Count(o, 0)
  /\ indexRec' = WrittenIndex(o, Without(deleteTask.idx, deleteTask.key))
  /\ DeleteFinish(deleteTask)
  /\ UNCHANGED <<kv, editorTitle, editorContent, editorFormat, isNewNote, isSaving, now>>
  /\ UNCHANGED <<saveTask, loadTask, nOps>>
  /\ call' = o
  /\ surfaced' = (surfaced \/ event' \in Failures)
  /\ UNCHANGED <<schedVars, obsVars, walletVars, auxVars>>

(***************************************************************************)
(* loadNotes, lines 518-595, as called by refreshNotes and initializeWallet.*)
(* identity is the identityKey of the render whose loadNotes was called:   *)
(* writeNotesCache reads it from that closure.                             *)
(***************************************************************************)
LoadStart(identity) == [pc |-> "l_index", identity |-> identity]

refreshNotes ==
  /\ view = "grid"
  /\ kvStore
  /\ loadTask.pc = "idle"
  /\ nOps < MaxOps
  /\ nOps' = nOps + 1
  /\ loadTask' = LoadStart(identityKey)
  /\ UNCHANGED <<storeVars, appVars, saveTask, deleteTask>>
  /\ event' = "none"
  /\ UNCHANGED <<nFail, savedClean, deleted>>
  /\ call' = "none"
  /\ surfaced' = (surfaced \/ event' \in Failures)
  /\ UNCHANGED <<schedVars, obsVars, walletVars, auxVars>>

\* lines 569-575
LoadedNotes(results) == SortByTimestamp(Flatten(results))

\* lines 574-575: setNotes, then writeNotesCache of the closure that called
\* loadNotes
LoadFinish(results) ==
  /\ event' = "loadOk"
  /\ notes' = LoadedNotes(results)
  /\ cache' = WriteNotesCache(loadTask.identity, LoadedNotes(results))
  /\ loadTask' = Idle

\* line 533: const paths = await readIndex(store); the gets are then all issued
LoadIndex(o) ==
  /\ loadTask.pc = "l_index"
  /\ MayEnd(o, 0) /\ Count(o, 0)
  /\ LET paths == ReadIndex(o) IN
     IF paths = <<>>
     THEN LoadFinish(<<>>)
     ELSE /\ loadTask' = [pc |-> "l_get", identity |-> loadTask.identity,
                          paths |-> paths,
                          results |-> [k \in DOMAIN paths |-> <<>>],
                          pending |-> DOMAIN paths, got |-> {}]
          /\ event' = "none"
          /\ UNCHANGED <<notes, cache>>
  /\ UNCHANGED <<kv, indexRec, selectedNote, editorTitle, editorContent, editorFormat,
                 isNewNote, view, isSaving, showMetanetNotification, now>>
  /\ UNCHANGED <<saveTask, deleteTask>>
  /\ UNCHANGED <<nOps, savedClean, deleted>>
  /\ call' = o
  /\ surfaced' = (surfaced \/ event' \in Failures)
  /\ UNCHANGED <<schedVars, obsVars, walletVars, auxVars>>

\* lines 538-566: one of the parallel gets returns; a failure or a missing
\* value yields null
Fetched_IgnoreOutcome(path, o) ==
  IF HasKey(path) THEN <<LoadedNote(path, ValueAt(path))>> ELSE <<>>
Fetched(path, o) ==
  IF o = "ok" /\ HasKey(path) THEN <<LoadedNote(path, ValueAt(path))>> ELSE <<>>

\* what a get handed to loadNotes: the path with the text stored at it
Got(path, o) == IF o = "ok" /\ HasKey(path) THEN {<<path, ValueAt(path)>>} ELSE {}

LoadGet(k, o) ==
  /\ loadTask.pc = "l_get"
  /\ k \in loadTask.pending
  /\ MayEnd(o, 0) /\ Count(o, 0)
  /\ LET results == [loadTask.results EXCEPT ![k] = Fetched(loadTask.paths[k], o)] IN
     IF loadTask.pending = {k}
     THEN LoadFinish(results)
     ELSE /\ loadTask' = [loadTask EXCEPT !.results = results, !.pending = @ \ {k},
                                          !.got = @ \cup Got(loadTask.paths[k], o)]
          /\ event' = "none"
          /\ UNCHANGED <<notes, cache>>
  /\ UNCHANGED <<kv, indexRec, selectedNote, editorTitle, editorContent, editorFormat,
                 isNewNote, view, isSaving, showMetanetNotification, now>>
  /\ UNCHANGED <<saveTask, deleteTask>>
  /\ UNCHANGED <<nOps, savedClean, deleted>>
  /\ call' = o
  /\ surfaced' = (surfaced \/ event' \in Failures)
  /\ UNCHANGED <<schedVars, obsVars, walletVars, auxVars>>

(***************************************************************************)
(* initializeWallet, lines 395-428.  It runs once on mount (lines 356-358) *)
(* and again every 3 s while the connectivity notice is showing (lines     *)
(* 361-370).  One call is followed at a time, and its loadNotes starts     *)
(* when no other load is running.                                          *)
(***************************************************************************)
\* lines 361-370: the interval of the effect calls initializeWallet
retryInitializeWallet ==
  /\ showMetanetNotification
  /\ initTask.pc = "idle"
  /\ nOps < MaxOps
  /\ nOps' = nOps + 1
  /\ initTask' = [pc |-> "i_auth", identity |-> identityKey]
  /\ event' = "none"
  /\ call' = "none"
  /\ UNCHANGED <<storeVars, appVars, kvStore, identityKey, taskVars>>
  /\ UNCHANGED <<nFail, savedClean, deleted, surfaced>>
  /\ UNCHANGED <<schedVars, obsVars, auxVars>>

\* an initializeWallet that leaves the notice up when the wallet answers
initializeWallet_KeepsNotice(o) ==
  /\ initTask.pc = "i_auth"
  /\ MayEnd(o, 0) /\ Count(o, 0)
  /\ initTask' = Idle
  /\ IF o = "ok"
     THEN /\ loadTask.pc = "idle"
          /\ identityKey' = <<Identity>>
          /\ kvStore' = TRUE
          /\ UNCHANGED showMetanetNotification
          /\ notes' = IF identityKey = <<>> /\ cache # <<>> THEN cache[1] ELSE notes
          /\ loadTask' = LoadStart(initTask.identity)
          /\ event' = "none"
     ELSE /\ IF o = "unreachable"
             THEN showMetanetNotification' = TRUE /\ event' = "initUnreachable"
             ELSE event' = "initError" /\ UNCHANGED showMetanetNotification
          /\ UNCHANGED <<identityKey, kvStore, notes, loadTask>>
  /\ call' = o
  /\ UNCHANGED <<storeVars, selectedNote, editorTitle, editorContent, editorFormat,
                 isNewNote, view, isSaving, now>>
  /\ UNCHANGED <<saveTask, deleteTask, nOps, savedClean, deleted, surfaced>>
  /\ UNCHANGED <<schedVars, obsVars, auxVars>>

\* lines 401-411 when the wallet answers, lines 412-427 when it does not; the
\* effect of lines 373-390 shows the cached list when the identity appears
initializeWallet(o) ==
  /\ initTask.pc = "i_auth"
  /\ MayEnd(o, 0) /\ Count(o, 0)
  /\ initTask' = Idle
  /\ IF o = "ok"
     THEN /\ loadTask.pc = "idle"
          /\ identityKey' = <<Identity>>
          /\ kvStore' = TRUE
          /\ showMetanetNotification' = FALSE
          /\ notes' = IF identityKey = <<>> /\ cache # <<>> THEN cache[1] ELSE notes
          /\ loadTask' = LoadStart(initTask.identity)
          /\ event' = "none"
     ELSE /\ IF o = "unreachable"
             THEN showMetanetNotification' = TRUE /\ event' = "initUnreachable"
             ELSE event' = "initError" /\ UNCHANGED showMetanetNotification
          /\ UNCHANGED <<identityKey, kvStore, notes, loadTask>>
  /\ call' = o
  /\ UNCHANGED <<storeVars, selectedNote, editorTitle, editorContent, editorFormat,
                 isNewNote, view, isSaving, now>>
  /\ UNCHANGED <<saveTask, deleteTask, nOps, savedClean, deleted, surfaced>>
  /\ UNCHANGED <<schedVars, obsVars, auxVars>>

SyncNext ==
  \/ \E o \in Outcomes : initializeWallet(o)
  \/ retryInitializeWallet
  \/ createNewNote
  \/ \E i \in DOMAIN notes : selectNote(notes[i])
  \/ handleBackToGrid
  \/ \E t \in EditableTitles : EditTitle(t)
  \/ \E c \in Contents : EditContent(c)
  \/ saveNote
  \/ \E o \in Outcomes : SaveRemoveOld(o)
  \/ \E o \in Outcomes : SaveRemoveIndexRead(o)
  \/ \E o \in Outcomes : SaveRemoveIndexWrite(o)
  \/ \E o \in Outcomes : SaveSet(o)
  \/ \E o \in Outcomes : SaveAddIndexRead(o)
  \/ \E o \in Outcomes : SaveAddIndexWrite(o)
  \/ \E i \in DOMAIN notes : deleteNote(notes[i])
  \/ \E o \in Outcomes : DeleteRemove(o)
  \/ \E o \in Outcomes : DeleteIndexRead(o)
  \/ \E o \in Outcomes : DeleteIndexWrite(o)
  \/ refreshNotes
  \/ \E o \in Outcomes : LoadIndex(o)
  \/ \E k \in 1..Len(Digits), o \in Outcomes : LoadGet(k, o)

(***************************************************************************)
(* Two saveNote calls in progress.  A DocumentEditor calls saveNote through *)
(* its scheduler, one call at a time; once the editor has unmounted (line   *)
(* 871: handleBackToGrid sets view to grid) its call goes on, and the       *)
(* scheduler of the next editor may call saveNote beside it.  The steps of  *)
(* the call held in saveTask are followed; SwapSaves is no step of the      *)
(* program, it exchanges the call that is followed.                         *)
(***************************************************************************)
SwapSaves ==
  /\ saveTask # bgSave
  /\ IF saveTask = Idle THEN TRUE ELSE saveTask.detached
  /\ saveTask' = bgSave
  /\ bgSave' = saveTask
  /\ event' = "none"
  /\ call' = "none"
  /\ UNCHANGED <<storeVars, appVars, walletVars, deleteTask, loadTask>>
  /\ UNCHANGED <<nOps, nFail, savedClean, deleted, surfaced>>
  /\ UNCHANGED <<schedVars, obsVars, retryTask, indexTask, cacheVars, editor>>

OverlapNext ==
  \/ createNewNote
  \/ \E i \in DOMAIN notes : selectNote(notes[i])
  \/ handleBackToGrid
  \/ \E t \in EditableTitles : EditTitle(t)
  \/ saveNote
  \/ \E o \in Outcomes : SaveRemoveOld(o)
  \/ \E o \in Outcomes : SaveRemoveIndexRead(o)
  \/ \E o \in Outcomes : SaveRemoveIndexWrite(o)
  \/ \E o \in Outcomes : SaveSet(o)
  \/ \E o \in Outcomes : SaveAddIndexRead(o)
  \/ \E o \in Outcomes : SaveAddIndexWrite(o)
  \/ SwapSaves

(***************************************************************************)
(* The scheduler driving saveNote: DocumentEditor, part_002 lines 405-461,  *)
(* rendered by NotesApp with onSave={saveNote} and onBack={handleBackToGrid} *)
(* (part_001 lines 884-897).  One instance of the editor, and so of its     *)
(* scheduler, is followed from its mount to its unmount.                    *)
(***************************************************************************)
\* key={selectedNote?.tokenId ?? 'new'}: the mounted editor is the one rendered
EditorCurrent ==
  /\ editor # <<>>
  /\ view = "editor"
  /\ selectedNote # <<>>
  /\ editor[1].key = selectedNote[1].tokenId

\* the state of a useAutoSave instance that has just been created
FreshScheduler == Quiescent /\ nNotify = 0 /\ ~flushAwaiting

\* the editor mounts: initialValuesRef takes initialTitle and initialContent
EditorMount ==
  /\ view = "editor"
  /\ selectedNote # <<>>
  /\ editor = <<>>
  /\ FreshScheduler
  /\ editor' = <<[key |-> selectedNote[1].tokenId, title |-> selectedNote[1].title,
                  content |-> selectedNote[1].contents]>>
  /\ UNCHANGED <<schedVars, obsVars, syncVars, retryTask, indexTask, cacheVars, bgSave>>

\* lines 445-446
HasChanges(title, content) ==
  title # editor[1].title \/ content # editor[1].content

\* lines 449-453: the effect calls save() when hasChanges && title.trim()
SaveEffect(title, content) ==
  IF HasChanges(title, content) /\ Trim(title) # <<>>
  THEN nNotify < MaxEdits /\ Sched_save
  ELSE UNCHANGED <<schedVars, obsVars>>

EditorTitleChange(t) ==
  /\ EditorCurrent
  /\ App_EditTitle(t)
  /\ SaveEffect(t, editorContent)
  /\ UNCHANGED auxVars

EditorContentChange(c) ==
  /\ EditorCurrent
  /\ App_EditContent(c)
  /\ SaveEffect(editorTitle, c)
  /\ UNCHANGED auxVars

\* the debounce timer fires and performSave calls saveFunctionRef.current(),
\* which is saveNote
EditorTimerExpiry ==
  /\ EditorCurrent
  /\ Sched_TimerExpiry
  /\ IF PerformSaveGuard THEN App_saveNote ELSE UNCHANGED syncVars
  /\ UNCHANGED auxVars

\* useAutoSave lines 76-82, the cleanup on unmount: clearTimeout(timeoutRef.current)
Sched_Unmount ==
  /\ timeoutRef' = {}
  /\ UNCHANGED <<saveStatus, isSavingRef, hasPendingRef, statusResets, running,
                 flushAwaiting, flushSettled, unhandled, saveFnMode>>
  /\ UNCHANGED obsVars

\* handleBack, lines 456-461: if (hasChanges) await flush(); onBack().  When
\* flush starts a save, onBack waits for it (EditorSettle).
EditorBack ==
  /\ EditorCurrent
  /\ ~flushAwaiting
  /\ IF HasChanges(editorTitle, editorContent)
     THEN /\ Sched_flush
          /\ IF FlushRuns /\ PerformSaveGuard
             THEN App_saveNote /\ UNCHANGED editor
             ELSE App_handleBackToGrid /\ editor' = <<>>
     ELSE /\ Sched_Unmount
          /\ App_handleBackToGrid
          /\ editor' = <<>>
  /\ UNCHANGED <<retryTask, indexTask, cacheVars, bgSave>>

\* saveNote has returned or its saveOperation has ended: the promise resolves
\* (the catch of lines 752-770 lets no error out) and performSave resumes;
\* a handleBack waiting in flush() goes on with onBack()
EditorSettle ==
  /\ running > 0
  /\ saveTask.pc = "idle"
  /\ Sched_SaveFunctionSettles(TRUE)
  /\ IF flushAwaiting
     THEN App_handleBackToGrid /\ editor' = <<>>
     ELSE UNCHANGED <<syncVars, editor>>
  /\ UNCHANGED <<retryTask, indexTask, cacheVars, bgSave>>

\* the key of the rendered editor has changed: the instance unmounts
EditorUnmount ==
  /\ editor # <<>>
  /\ ~EditorCurrent
  /\ Sched_Unmount
  /\ editor' = <<>>
  /\ UNCHANGED <<syncVars, retryTask, indexTask, cacheVars, bgSave>>

\* time is followed while a timer of the scheduler is armed
EditorTick == (timeoutRef # {} \/ statusResets # NoResets) /\ Tick

\* the user creates a document while no editor has been mounted yet (the list
\* is empty until a save)
EditorNext ==
  \/ FreshScheduler /\ createNewNote
  \/ EditorMount
  \/ \E t \in EditableTitles : EditorTitleChange(t)
  \/ \E c \in Contents : EditorContentChange(c)
  \/ EditorTimerExpiry
  \/ EditorBack
  \/ EditorSettle
  \/ EditorUnmount
  \/ StatusReset
  \/ EditorTick
  \/ \E o \in Outcomes : SaveRemoveOld(o)
  \/ \E o \in Outcomes : SaveRemoveIndexRead(o)
  \/ \E o \in Outcomes : SaveRemoveIndexWrite(o)
  \/ \E o \in Outcomes : SaveSet(o)
  \/ \E o \in Outcomes : SaveAddIndexRead(o)
  \/ \E o \in Outcomes : SaveAddIndexWrite(o)

\* A document is opened after the editor that was followed has unmounted: the
\* DocumentEditor rendered now has a useAutoSave instance of its own, in its
\* initial state, and this instance is followed from here on.  What the
\* unmounted instance still does changes its own state alone.  The case
\* followed is the one in which the unmounted editor left a saveNote call in
\* progress: the call goes on beside the new editor.
EditorRemount ==
  /\ view = "editor"
  /\ selectedNote # <<>>
  /\ editor = <<>>
  /\ saveTask.pc # "idle"
  /\ bgSave = Idle
  /\ editor' = <<[key |-> selectedNote[1].tokenId, title |-> selectedNote[1].title,
                  content |-> selectedNote[1].contents]>>
  /\ bgSave' = saveTask
  /\ saveTask' = Idle
  /\ saveStatus' = "idle"
  /\ timeoutRef' = {}
  /\ isSavingRef' = FALSE
  /\ hasPendingRef' = FALSE
  /\ statusResets' = NoResets
  /\ running' = 0
  /\ flushAwaiting' = FALSE
  /\ flushSettled' = "none"
  /\ unhandled' = FALSE
  /\ nNotify' = 0
  /\ sinceNotify' = Delay + 1
  /\ execsSinceNotify' = 0
  /\ cleanBurst' = FALSE
  /\ burstLen' = 0
  /\ cancelled' = FALSE
  /\ statusLog' = <<>>
  /\ sinceSettle' = ErrorWindow + 1
  /\ settled' = "none"
  /\ event' = "none"
  /\ call' = "none"
  /\ UNCHANGED <<saveFnMode, storeVars, appVars, walletVars, deleteTask, loadTask>>
  /\ UNCHANGED <<nOps, nFail, savedClean, deleted, surfaced>>
  /\ UNCHANGED <<retryTask, indexTask, cacheVars>>

\* the user edits, goes back and opens documents again; the store calls
\* succeed
ReopenNext ==
  \/ createNewNote
  \/ \E i \in DOMAIN notes : selectNote(notes[i])
  \/ EditorMount
  \/ EditorRemount
  \/ \E t \in EditableTitles : EditorTitleChange(t)
  \/ \E c \in Contents : EditorContentChange(c)
  \/ EditorTimerExpiry
  \/ EditorBack
  \/ EditorSettle
  \/ EditorUnmount
  \/ StatusReset
  \/ EditorTick
  \/ \E o \in {"ok"} : SaveRemoveOld(o)
  \/ \E o \in {"ok"} : SaveRemoveIndexRead(o)
  \/ \E o \in {"ok"} : SaveRemoveIndexWrite(o)
  \/ \E o \in {"ok"} : SaveSet(o)
  \/ \E o \in {"ok"} : SaveAddIndexRead(o)
  \/ \E o \in {"ok"} : SaveAddIndexWrite(o)

\* a host of the hook that also calls cancelSave(), which DocumentEditor
\* does not
EditorHostNext == EditorNext \/ (EditorCurrent /\ cancelSave)

(***************************************************************************)
(* withRetry, lines 650-668, followed on its own for any attempts, any     *)
(* delaysMs and any behaviour of fn.  An invocation of fn resolves with a  *)
(* value (the number of the invocation stands for it) or rejects with an   *)
(* Error or with another value, of either message.                         *)
(***************************************************************************)
\* delaysMs = [300, 800, 1500], line 653
DefaultDelays == <<300, 800, 1500>>
DelaySeqs == {SubSeq(DefaultDelays, 1, n) : n \in 0..Len(DefaultDelays)}

Rejections == [ok : {FALSE}, error : BOOLEAN, message : {"fail", "unreachable"}]
Resolution(n) == [ok |-> TRUE, error |-> FALSE, message |-> "", value |-> n]
Rejection(r) == [ok |-> FALSE, error |-> r.error, message |-> r.message, value |-> 0]

\* line 662: delaysMs[i] ?? delaysMs[delaysMs.length - 1] ?? 500, i from 0
DelayAt_NoRepeat(delaysMs, i) ==
  IF i + 1 <= Len(delaysMs) THEN delaysMs[i + 1] ELSE DefaultDelay
DelayAt(delaysMs, i) ==
  IF i + 1 <= Len(delaysMs) THEN delaysMs[i + 1]
  ELSE IF delaysMs # <<>> THEN delaysMs[Len(delaysMs)]
  ELSE DefaultDelay

\* line 667: lastErr instanceof Error ? lastErr : new Error(String(lastErr))
Thrown(lastErr) == [lastErr EXCEPT !.error = TRUE]

\* the call withRetry(fn, attempts, delaysMs) about to invoke fn first
RetryStart(attempts, delaysMs) ==
  [pc |-> "call", attempts |-> attempts, delaysMs |-> delaysMs, i |-> 0,
   lastErr |-> <<>>, outcomes |-> <<>>, waited |-> <<>>, result |-> <<>>]

\* lines 657-665: fn is invoked and settles
RetryCall(r) ==
  /\ retryTask.pc = "call"
  /\ LET n == Len(retryTask.outcomes) + 1
         out == IF r.ok THEN Resolution(n) ELSE Rejection(r) IN
     retryTask' =
       IF out.ok
       THEN [retryTask EXCEPT !.pc = "returned", !.outcomes = Append(@, out),
                              !.result = <<out>>]
       ELSE IF RetriesOf(retryTask.i, retryTask.attempts)
       THEN [retryTask EXCEPT !.pc = "wait", !.outcomes = Append(@, out),
                              !.lastErr = <<out>>]
       ELSE [retryTask EXCEPT !.pc = "threw", !.outcomes = Append(@, out),
                              !.lastErr = <<out>>, !.i = @ + 1,
                              !.result = <<Thrown(out)>>]
  /\ UNCHANGED <<schedVars, obsVars, syncVars, indexTask, cacheVars, sideVars>>

\* line 663: the delay has passed, the loop goes on
RetryWait ==
  /\ retryTask.pc = "wait"
  /\ retryTask' = [retryTask EXCEPT
                     !.pc = "call",
                     !.waited = Append(@, DelayAt(retryTask.delaysMs, retryTask.i)),
                     !.i = @ + 1]
  /\ UNCHANGED <<schedVars, obsVars, syncVars, indexTask, cacheVars, sideVars>>

RetryNext ==
  \/ \E r \in Rejections \cup {[ok |-> TRUE]} : RetryCall(r)
  \/ RetryWait

(***************************************************************************)
(* readIndex, addToIndex and removeFromIndex, lines 446-493, followed on   *)
(* their own: one operation at a time, over any record another session or  *)
(* another writer may have left at INDEX_KEY, each store call ending in any *)
(* way.                                                                    *)
(***************************************************************************)
IndexKeys == {FileName(<<"a">>), FileName(<<UntitledBase>>)}

RECURSIVE SeqsUpTo(_, _)
SeqsUpTo(S, n) ==
  IF n = 0 THEN {<<>>}
  ELSE LET shorter == SeqsUpTo(S, n - 1) IN
       shorter \cup {Append(s, x) : s \in {t \in shorter : Len(t) = n - 1}, x \in S}

\* what store.get(INDEX_KEY) may find: nothing, a text that is not JSON, JSON
\* that is no array, or the JSON text of an array of keys in any order
StoredIndexes ==
  {<<>>, <<[kind |-> "text", paths |-> <<>>]>>, <<[kind |-> "json", paths |-> <<>>]>>}
    \cup {<<StringifyPaths(s)>> : s \in SeqsUpTo(IndexKeys, MaxIndexLen)}

\* readIndex(store), addToIndex(store, path) or removeFromIndex(store, path)
\* is called
IndexBegin(op, path) ==
  /\ indexTask.pc \in {"idle", "done"}
  /\ (IF indexTask.pc = "idle" THEN 0 ELSE indexTask.n) < MaxIndexOps
  /\ indexTask' = [pc |-> "read", op |-> op, path |-> path, before |-> indexRec,
                   idx |-> <<>>, wrote |-> FALSE, failed |-> FALSE,
                   n |-> IF indexTask.pc = "idle" THEN 1 ELSE indexTask.n + 1]
  /\ call' = "none"
  /\ UNCHANGED <<schedVars, obsVars, storeVars, appVars, walletVars, taskVars,
                 nOps, nFail, event, savedClean, deleted, surfaced, retryTask,
                 cacheVars, sideVars>>

\* lines 446-457 (and 479-480 for addToIndex): the index has been read
IndexRead(o) ==
  /\ indexTask.pc = "read"
  /\ LET idx == ReadIndex(o) IN
     indexTask' = [indexTask EXCEPT
                     !.idx = idx,
                     !.failed = (o # "ok"),
                     !.pc = IF \/ indexTask.op = "read"
                               \/ indexTask.op = "add" /\ Includes(idx, indexTask.path)
                            THEN "done" ELSE "write"]
  /\ call' = o
  /\ UNCHANGED <<schedVars, obsVars, storeVars, appVars, walletVars, taskVars,
                 nOps, nFail, event, savedClean, deleted, surfaced, retryTask,
                 cacheVars, sideVars>>

\* lines 481-482 and 491-492: the paths handed to writeIndex
IndexArgument(t) ==
  IF t.op = "add" THEN Append(t.idx, t.path) ELSE Without(t.idx, t.path)

\* lines 466-473: writeIndex has run
IndexWrite(o) ==
  /\ indexTask.pc = "write"
  /\ indexRec' = WrittenIndex(o, IndexArgument(indexTask))
  /\ indexTask' = [indexTask EXCEPT !.pc = "done", !.wrote = TRUE,
                                    !.failed = (@ \/ o # "ok")]
  /\ call' = o
  /\ UNCHANGED <<schedVars, obsVars, kv, cache, appVars, walletVars, taskVars,
                 nOps, nFail, event, savedClean, deleted, surfaced, retryTask,
                 cacheVars, sideVars>>

IndexNext ==
  \/ \E op \in {"read", "add", "remove"}, path \in IndexKeys : IndexBegin(op, path)
  \/ \E o \in Outcomes : IndexRead(o)
  \/ \E o \in Outcomes : IndexWrite(o)

(***************************************************************************)
(* The local cache, lines 328, 353, 373-390 and 499-508, with the calls    *)
(* that read and write it.  The same session is run in two browsers whose  *)
(* localStorage differs only in the entry of another identity; the wallet  *)
(* answers each initializeWallet with the identity signed in at that time. *)
(***************************************************************************)
CACHE_KEY_PREFIX == "metanetdocs_notes_cache_v2_"

\* line 353: `${CACHE_KEY_PREFIX}${idKey}`
GetCacheKey(idKey) == <<CACHE_KEY_PREFIX, idKey>>

OtherIdentity == "03cd"
Identities == {Identity, OtherIdentity}
CacheKeys == {GetCacheKey(idKey) : idKey \in Identities}
Browsers == {1, 2}

\* JSON.stringify(notesToCache), line 503
StringifyNotes(list) == [kind |-> "array", notes |-> list]

\* documents an earlier session stored, as <<key, text>>
PriorDoc(title, contents) ==
  <<FileName(title),
    StringifyNoteData([title |-> title, contents |-> contents,
                       format |-> "richtext", lastModified |-> 1])>>
DocA == PriorDoc(<<"a">>, Txt("x"))
DocU == PriorDoc(<<UntitledBase>>, Txt(""))

NoteA == LoadedNote(DocA[1], DocA[2])
NoteU == LoadedNote(DocU[1], DocU[2])

\* what an earlier session may have left at a cache key
CachedTexts ==
  {<<>>, <<[kind |-> "text", notes |-> <<>>]>>, <<StringifyNotes(<<>>)>>,
   <<StringifyNotes(<<NoteA>>)>>}

\* the list every get of a load returns documents for
RemoteLists == {<<>>, <<NoteU>>}

\* lines 373-390: the list shown once the effect has run for identity
ShownFromCache(storage, identity, shown) ==
  IF identity = <<>> THEN shown
  ELSE LET raw == storage[GetCacheKey(identity[1])] IN
       IF raw # <<>> /\ raw[1].kind = "array" THEN raw[1].notes ELSE shown

\* lines 499-508, identity being the identityKey of the closure that calls
WriteNotesCacheIn(storage, identity, list) ==
  IF identity = <<>> THEN storage
  ELSE [storage EXCEPT ![GetCacheKey(identity[1])] = <<StringifyNotes(list)>>]

\* the component has mounted
CacheMounted ==
  [pc |-> "mounted", identityKey |-> <<>>, notes |-> [b \in Browsers |-> <<>>],
   notice |-> FALSE, calls |-> {}, n |-> 0]

\* initializeWallet, lines 395-411, called on mount or by the interval of
\* lines 361-370: the wallet answers with publicKey; the effect of lines
\* 373-390 runs when identityKey has changed; loadNotes is called from the
\* closure of the render that called initializeWallet
CacheInitializeWallet(publicKey) ==
  /\ cacheTask.identityKey = <<>> \/ cacheTask.notice
  /\ cacheTask.n < MaxCacheOps
  /\ cacheTask' =
       [cacheTask EXCEPT
          !.identityKey = <<publicKey>>,
          !.notice = FALSE,
          !.notes = [b \in Browsers |->
                       IF cacheTask.identityKey = <<publicKey>> THEN @[b]
                       ELSE ShownFromCache(localStorage[b], <<publicKey>>, @[b])],
          !.calls = @ \cup {[op |-> "load", identity |-> cacheTask.identityKey,
                             key |-> <<>>]},
          !.n = @ + 1]
  /\ UNCHANGED localStorage
  /\ UNCHANGED <<schedVars, obsVars, syncVars, retryTask, indexTask, sideVars>>

\* loadNotes, lines 574-575: the list loaded from the Remote Store is shown
\* and cached
CacheLoadNotes(c, list) ==
  /\ c \in cacheTask.calls /\ c.op = "load"
  /\ cacheTask' = [cacheTask EXCEPT !.notes = [b \in Browsers |-> list],
                                    !.calls = @ \ {c}]
  /\ localStorage' = [b \in Browsers |->
                        WriteNotesCacheIn(localStorage[b], c.identity, list)]
  /\ UNCHANGED <<schedVars, obsVars, syncVars, retryTask, indexTask, sideVars>>

\* saveNote of a new document or deleteNote is called
CacheCall(op, key) ==
  /\ cacheTask.identityKey # <<>>
  /\ cacheTask.n < MaxCacheOps
  /\ cacheTask' = [cacheTask EXCEPT
                     !.calls = @ \cup {[op |-> op, identity |-> cacheTask.identityKey,
                                        key |-> key]},
                     !.n = @ + 1]
  /\ UNCHANGED localStorage
  /\ UNCHANGED <<schedVars, obsVars, syncVars, retryTask, indexTask, sideVars>>

\* lines 744-749 and 793-797: setNotes(prev => { ...; writeNotesCache(next) })
NextNotes(c, prev) ==
  LET Other(n) == n.tokenId # c.key IN
  IF c.op = "save"
  THEN <<[NoteU EXCEPT !.tokenId = c.key]>> \o SelectSeq(prev, Other)
  ELSE SelectSeq(prev, Other)

\* the save or delete has succeeded
CacheCallDone(c) ==
  /\ c \in cacheTask.calls /\ c.op # "load"
  /\ cacheTask' = [cacheTask EXCEPT
                     !.notes = [b \in Browsers |-> NextNotes(c, @[b])],
                     !.calls = @ \ {c}]
  /\ localStorage' = [b \in Browsers |->
                        WriteNotesCacheIn(localStorage[b], c.identity,
                                          NextNotes(c, cacheTask.notes[b]))]
  /\ UNCHANGED <<schedVars, obsVars, syncVars, retryTask, indexTask, sideVars>>

\* lines 757-760 and 813-816: the save or delete gave up on an unreachable store
CacheCallUnreachable(c) ==
  /\ c \in cacheTask.calls /\ c.op # "load"
  /\ cacheTask' = [cacheTask EXCEPT !.notice = TRUE, !.calls = @ \ {c}]
  /\ UNCHANGED localStorage
  /\ UNCHANGED <<schedVars, obsVars, syncVars, retryTask, indexTask, sideVars>>

CacheCalls ==
  [op : {"load", "save", "delete"}, identity : {<<>>} \cup {<<i>> : i \in Identities},
   key : {<<>>, NoteA.tokenId, NoteU.tokenId}]

CacheNext ==
  \/ \E publicKey \in Identities : CacheInitializeWallet(publicKey)
  \/ \E c \in CacheCalls, list \in RemoteLists : CacheLoadNotes(c, list)
  \/ \E op \in {"save", "delete"}, key \in {NoteA.tokenId, NoteU.tokenId} :
        CacheCall(op, key)
  \/ \E c \in CacheCalls : CacheCallDone(c)
  \/ \E c \in CacheCalls : CacheCallUnreachable(c)

(***************************************************************************)
(* Specifications                                                          *)
(***************************************************************************)
\* no separate withRetry call or Index operation is followed
NoCache ==
  localStorage = <<>> /\ cacheTask = Idle /\ bgSave = Idle /\ editor = <<>>
AuxInit == retryTask = Idle /\ indexTask = Idle /\ NoCache

Init == SchedInit /\ SyncInit /\ AuxInit

\* the scheduler with an arbitrary save action
Next == SchedNext
Spec == Init /\ [][Next]_vars

\* the synchronizer, saveNote being called by whoever drives it
SyncInit0 == Init /\ saveFnMode = "any"
SyncSpec == SyncInit0 /\ [][SyncNext]_vars

\* one call of withRetry, for every attempts up to MaxAttempts
RetryInit ==
  /\ SchedInit /\ saveFnMode = "any" /\ SyncInit
  /\ indexTask = Idle /\ NoCache
  /\ \E attempts \in 1..MaxAttempts, delaysMs \in DelaySeqs :
        retryTask = RetryStart(attempts, delaysMs)
RetrySpec == RetryInit /\ [][RetryNext]_vars

\* the component from its mount on, over what an earlier session left in the
\* Remote Store and in localStorage; the user creates documents, goes back
\* and refreshes
PriorStores ==
  {[kv |-> {}, indexRec |-> <<>>],
   [kv |-> {DocA}, indexRec |-> <<StringifyPaths(<<DocA[1]>>)>>],
   [kv |-> {DocA, DocU}, indexRec |-> <<StringifyPaths(<<DocU[1], DocA[1]>>)>>],
   [kv |-> {DocA}, indexRec |-> <<StringifyPaths(<<DocU[1], DocA[1]>>)>>]}
PriorCaches == {<<>>, <<<<LoadedNote(DocA[1], DocA[2])>>>>}

WalletInit ==
  /\ SchedInit /\ saveFnMode = "any"
  /\ AppInit /\ Mounted /\ AuxInit
  /\ \E s \in PriorStores : kv = s.kv /\ indexRec = s.indexRec
  /\ cache \in PriorCaches
WalletNext ==
  \/ \E o \in Outcomes : initializeWallet(o)
  \/ retryInitializeWallet
  \/ createNewNote
  \/ handleBackToGrid
  \/ refreshNotes
  \/ \E o \in Outcomes : LoadIndex(o)
  \/ \E k \in 1..Len(Digits), o \in Outcomes : LoadGet(k, o)
WalletSpec == WalletInit /\ [][WalletNext]_vars

\* line 920: the user closes the connectivity notice
dismissNotification ==
  /\ showMetanetNotification
  /\ showMetanetNotification' = FALSE
  /\ event' = "none"
  /\ call' = "none"
  /\ UNCHANGED <<storeVars, selectedNote, notes, editorTitle, editorContent,
                 editorFormat, isNewNote, view, isSaving, now>>
  /\ UNCHANGED <<walletVars, taskVars>>
  /\ UNCHANGED <<nOps, nFail, savedClean, deleted, surfaced>>
  /\ UNCHANGED <<schedVars, obsVars, auxVars>>

\* the component with its notice: the interval of lines 364-367 fires for as
\* long as the notice is up
NoticeNext ==
  \/ WalletNext
  \/ dismissNotification
NoticeSpec ==
  /\ WalletInit
  /\ [][NoticeNext]_vars
  /\ WF_vars(retryInitializeWallet)

\* Index operations one after the other, over any stored record
IndexInit ==
  /\ SchedInit /\ saveFnMode = "any"
  /\ AppInit /\ WalletReady /\ AuxInit
  /\ kv = {} /\ cache = <<>>
  /\ indexRec \in StoredIndexes
IndexSpec == IndexInit /\ [][IndexNext]_vars

\* the cache of two browsers that hold the same entry for Identity and any
\* entry for the other identity
CacheInit ==
  /\ SchedInit /\ saveFnMode = "any"
  /\ SyncInit
  /\ retryTask = Idle /\ indexTask = Idle /\ bgSave = Idle /\ editor = <<>>
  /\ cacheTask = CacheMounted
  /\ \E mine \in CachedTexts, other \in [Browsers -> CachedTexts] :
        localStorage = [b \in Browsers |->
                          [k \in CacheKeys |->
                             IF k = GetCacheKey(Identity) THEN mine ELSE other[b]]]
CacheSpec == CacheInit /\ [][CacheNext]_vars

\* one DocumentEditor: its scheduler calls saveNote
EditorSpec == SyncInit0 /\ [][EditorNext]_vars

\* successive DocumentEditors, each with a scheduler of its own
ReopenSpec == SyncInit0 /\ [][ReopenNext]_vars

\* every Remote Store call returns, and a resolved promise's continuation runs
EditorLiveSpec ==
  /\ SyncInit0 /\ [][EditorHostNext]_vars
  /\ WF_vars(\E o \in Outcomes : SaveRemoveOld(o))
  /\ WF_vars(\E o \in Outcomes : SaveRemoveIndexRead(o))
  /\ WF_vars(\E o \in Outcomes : SaveRemoveIndexWrite(o))
  /\ WF_vars(\E o \in Outcomes : SaveSet(o))
  /\ WF_vars(\E o \in Outcomes : SaveAddIndexRead(o))
  /\ WF_vars(\E o \in Outcomes : SaveAddIndexWrite(o))
  /\ WF_vars(EditorSettle)

\* the synchronizer with saveNote calls of successive editors overlapping
OverlapSpec == SyncInit0 /\ [][OverlapNext]_vars


(***************************************************************************)
(* Properties of the scheduler                                             *)
(***************************************************************************)
IsPrefix(s, t) == /\ Len(s) <= Len(t)
                  /\ \A i \in 1..Len(s) : s[i] = t[i]

\* C1: at most one execution of the save action is in progress at any time,
\* and one is in progress exactly while isSavingRef is set (so none starts
\* while the flag is set).
C1_AtMostOneExecution ==
  /\ running <= 1
  /\ isSavingRef <=> (running = 1)

\* a second change arrived while the save action was running
C1_Witness == running = 1 /\ isSavingRef /\ hasPendingRef /\ nNotify >= 2

\* C2: after a save() call made with no save in flight (and no cancel/flush
\* since), no execution starts before Delay ticks have passed since the last
\* call, the timer is due exactly Delay after it, and once that time has passed
\* exactly one execution has started.
C2_OneExecutionAfterDelay ==
  cleanBurst =>
    /\ sinceNotify < Delay =>
         execsSinceNotify = 0 /\ timeoutRef = {Delay - sinceNotify}
    /\ sinceNotify = Delay =>
         \/ execsSinceNotify = 0 /\ timeoutRef = {0}
         \/ execsSinceNotify = 1 /\ timeoutRef = {}
    /\ sinceNotify > Delay => execsSinceNotify = 1 /\ timeoutRef = {}

\* a burst of two or more calls ended in its one execution
C2_Witness ==
  cleanBurst /\ burstLen >= 2 /\ execsSinceNotify = 1 /\ sinceNotify = Delay

\* C3: a save() call made while a save is in flight arms the debounce timer,
\* and a pending change with no save in flight always has a timer armed that
\* will run it.
C3_NotifyInFlightArmsTimer ==
  /\ [][(save /\ isSavingRef) => timeoutRef' # {}]_vars
  /\ [](hasPendingRef /\ ~isSavingRef => timeoutRef # {})

\* C4: a flush() called while a change is pending starts the save action and
\* resolves only when it has completed; after flush() no timer is armed.
C4_FlushCoversPending ==
  [][(flush /\ hasPendingRef) =>
       (flushAwaiting' /\ running' = running + 1 /\ timeoutRef' = {})]_vars

\* C5: cancelSave() clears the timer and the pending flag, sets status idle
\* when no save is in flight, leaves an in-flight save and isSavingRef alone;
\* no execution starts after it until the next save() call.
C5_Cancel ==
  /\ [][cancelSave =>
          /\ timeoutRef' = {}
          /\ ~hasPendingRef'
          /\ isSavingRef' = isSavingRef
          /\ running' = running
          /\ ~isSavingRef => saveStatus' = "idle"]_vars
  /\ [][running' > running => ~cancelled]_vars

\* cancelSave() was called while a save was in flight
C5_Witness == cancelled /\ isSavingRef /\ running = 1 /\ saveStatus = "saving"

\* C6: with a save action that always fails, a cycle of one save() call and
\* the timer's expiry shows the statuses idle, pending, saving, error, idle,
\* the last ErrorWindow after the failure; isSavingRef is clear once the
\* execution has completed, so that a later save() call arms the timer again.
FailCycle == <<"idle", "pending", "saving", "error", "idle">>

C6_FailingCycle ==
  /\ [](saveFnMode = "alwaysFail" /\ statusLog # <<>> =>
          /\ IsPrefix(statusLog, FailCycle)
          /\ saveStatus = statusLog[Len(statusLog)]
          /\ Len(statusLog) >= 4 => ~isSavingRef /\ running = 0)
  /\ [][saveFnMode = "alwaysFail" /\ Len(statusLog) = 4 /\ Len(statusLog') = 5 =>
          sinceSettle = ErrorWindow]_vars
  /\ [][saveFnMode = "alwaysFail" /\ Len(statusLog) >= 4 /\ save =>
          timeoutRef' = {Delay}]_vars

\* the whole cycle has been seen
C6_Witness == saveFnMode = "alwaysFail" /\ statusLog = FailCycle

\* C7: a failure of the save action is swallowed by performSave: the promise
\* flush() awaits never rejects, the timer callback leaves no rejected promise,
\* and the failure shows as status error.
C7_FailureSwallowed ==
  /\ [](flushSettled # "rejected" /\ ~unhandled)
  /\ [][SaveFunctionSettles(FALSE) => saveStatus' = "error"]_vars

\* a flush() has resolved on a save that failed
C7_Witness == flushSettled = "afterSave" /\ saveStatus = "error" /\ sinceSettle = 0



(***************************************************************************)
(* Properties of the synchronizer                                          *)
(***************************************************************************)
Index == ReadIndex("ok")

\* C8: a save called right after a successful save of the same document,
\* with no edit of title or contents since that save was called, returns
\* without any Remote Store set or remove and without touching the Index:
\* the step starts no operation and leaves the Remote Store as it is.
C8_SecondSaveIsNoOp ==
  [][(saveNote /\ savedClean) =>
       (event' = "saveUnchanged" /\ UNCHANGED <<storeVars, saveTask, isSaving>>)]_vars

\* a save has been called on a document just saved and has returned at once
C8_Witness == event = "saveUnchanged" /\ savedClean /\ kv # {}

\* C9: when the save that renames a document from key A to key B reports
\* success, the Index lists B and not A, the Remote Store holds nothing at A
\* and holds the serialized document at B.
C9_RenameMovesDocument ==
  [][(saveTask.pc # "idle" /\ saveTask.rename /\ event' = "saveOk") =>
       LET A == saveTask.sel[1].tokenId
           B == saveTask.filename IN
       /\ Includes(Index', B)
       /\ ~Includes(Index', A)
       /\ ~\E e \in kv' : e[1] = A
       /\ \E e \in kv' : e[1] = B /\ e[2] = StringifyNoteData(NoteDataToSave(saveTask))]_vars

\* C10: when a delete reports success the document's key is absent from the
\* Index, from the in-memory list and from the cache snapshot, and a load
\* that completes later returns no deleted document, whatever else was in
\* flight when the delete was called.
C10_DeleteRemovesEverywhere ==
  /\ [][(deleteTask.pc # "idle" /\ event' = "deleteOk") =>
          /\ ~Includes(Index', deleteTask.key)
          /\ deleteTask.key \notin KeysOf(notes')
          /\ cache' # <<>> /\ deleteTask.key \notin KeysOf(cache'[1])]_vars
  /\ [][(loadTask.pc # "idle" /\ event' = "loadOk") =>
          KeysOf(notes') \cap deleted = {}]_vars

\* what the get that completes a load in its last step hands over
LastGot ==
  IF loadTask.pc = "l_get"
  THEN Got(loadTask.paths[CHOOSE k \in loadTask.pending : TRUE], call')
  ELSE {}

\* C11: a load tolerates the failure of single gets: when it completes, the
\* in-memory list holds exactly the documents parsed from the values its gets
\* returned, one per such key, whatever gets failed or found nothing, and no
\* failure notification is raised.
C11_LoadToleratesFailures ==
  [][(loadTask.pc # "idle" /\ event' = "loadOk") =>
       LET final == (IF loadTask.pc = "l_get" THEN loadTask.got ELSE {}) \cup LastGot IN
       /\ {notes'[i] : i \in DOMAIN notes'} = {LoadedNote(g[1], g[2]) : g \in final}
       /\ Len(notes') = Cardinality(final)
       /\ showMetanetNotification' = showMetanetNotification
       /\ surfaced' = surfaced]_vars

\* a load has completed with one of two listed documents: the get of the
\* other, which is stored, failed in the last step
C11_Witness ==
  /\ event = "loadOk" /\ call \in {"fail", "unreachable"}
  /\ Len(Index) = 2 /\ \A i \in DOMAIN Index : HasKey(Index[i])
  /\ Len(notes) = 1

(***************************************************************************)
(* Properties of withRetry                                                 *)
(***************************************************************************)
\* the delay the Retry Policy prescribes after the j-th failed invocation
PolicyDelay(delaysMs, j) ==
  IF j <= Len(delaysMs) THEN delaysMs[j]
  ELSE IF Len(delaysMs) > 0 THEN delaysMs[Len(delaysMs)] ELSE DefaultDelay

\* C12: when withRetry returns, fn has failed k < attempts times and then
\* succeeded: fn was invoked exactly k + 1 times, exactly k delays were
\* waited, the j-th being delaysMs[j] or, past the end of delaysMs, its last
\* value, and the value returned is the one of the (k + 1)-th invocation.
C12_RetryThenSuccess ==
  retryTask.pc = "returned" =>
    LET k == Len(retryTask.waited) IN
    /\ k < retryTask.attempts
    /\ Len(retryTask.outcomes) = k + 1
    /\ \A j \in 1..k : ~retryTask.outcomes[j].ok
    /\ \A j \in 1..k : retryTask.waited[j] = PolicyDelay(retryTask.delaysMs, j)
    /\ retryTask.result = <<Resolution(k + 1)>>

\* 3 attempts with the default delays, two failures, then success
C12_Witness ==
  /\ retryTask.pc = "returned"
  /\ retryTask.attempts = Attempts /\ retryTask.delaysMs = DefaultDelays
  /\ retryTask.waited = <<300, 800>>
  /\ retryTask.result = <<Resolution(3)>>

\* C13: withRetry never invokes fn more than attempts times; when fn always
\* fails it raises after exactly attempts invocations and attempts - 1 delays,
\* none after the last attempt, and what it raises is the failure of the last
\* attempt (as an Error carrying it when fn rejected with something else);
\* a failure of any kind before the last attempt is followed by a retry.
C13_RetryExhausted ==
  /\ retryTask.pc # "idle" =>
       /\ Len(retryTask.outcomes) <= retryTask.attempts
       /\ Len(retryTask.waited) <= retryTask.attempts - 1
  /\ retryTask.pc = "threw" =>
       LET n == Len(retryTask.outcomes)
           last == retryTask.outcomes[n] IN
       /\ n = retryTask.attempts
       /\ \A j \in 1..n : ~retryTask.outcomes[j].ok
       /\ Len(retryTask.waited) = retryTask.attempts - 1
       /\ retryTask.result[1].message = last.message
       /\ last.error => retryTask.result = <<last>>
  /\ retryTask.pc \in {"wait", "call"} =>
       \A j \in DOMAIN retryTask.outcomes : ~retryTask.outcomes[j].ok
  /\ (retryTask.pc # "idle" /\ retryTask.outcomes # <<>>
        /\ ~retryTask.outcomes[Len(retryTask.outcomes)].ok
        /\ Len(retryTask.outcomes) < retryTask.attempts) =>
       retryTask.pc \in {"wait", "call"}

\* 3 attempts, failures of both kinds, the last one raised
C13_Witness ==
  /\ retryTask.pc = "threw"
  /\ retryTask.attempts = Attempts
  /\ retryTask.outcomes[1].message = "fail"
  /\ retryTask.outcomes[3].message = "unreachable"
  /\ retryTask.result[1].message = "unreachable"
  /\ retryTask.waited = <<300, 800>>

(***************************************************************************)
(* Properties of the Index operations                                      *)
(***************************************************************************)
\* the keys a stored record lists: none unless it is the text of an array
KeySetOf(rec) ==
  IF rec # <<>> /\ rec[1].kind = "array"
  THEN {rec[1].paths[i] : i \in DOMAIN rec[1].paths} ELSE {}

StrictlySorted(paths) ==
  \A i \in 1..(Len(paths) - 1) : KeyLess(paths[i], paths[i + 1])

\* C14: reading the Index never fails: it yields the stored sequence of keys
\* when the get succeeds and finds the text of a JSON array, and the empty
\* sequence when the get fails, finds nothing, or finds a text that is not
\* the JSON of an array; the operation always goes on.
C14_ReadIndexNeverFails ==
  [][(indexTask.pc = "read" /\ indexTask' # indexTask) =>
       /\ indexTask'.pc \in {"write", "done"}
       /\ indexTask'.idx =
            IF call' = "ok" /\ indexRec # <<>> /\ indexRec[1].kind = "array"
            THEN indexRec[1].paths ELSE <<>>]_vars

\* the get of a stored, non-empty Index has failed and read() gave the empty
\* sequence
C14_Witness ==
  /\ indexTask.pc = "done" /\ indexTask.op = "read"
  /\ call \in {"fail", "unreachable"}
  /\ KeySetOf(indexRec) # {}
  /\ indexTask.idx = <<>>

\* C15: a successful write of the Index stores the sorted, duplicate-free
\* list of exactly the keys it was given, whatever was stored before.
C15_WriteIndexReplaces ==
  [][(indexTask.pc = "write" /\ indexTask'.pc = "done" /\ call' = "ok") =>
       LET given == IndexArgument(indexTask) IN
       /\ indexRec' # <<>> /\ indexRec'[1].kind = "array"
       /\ StrictlySorted(indexRec'[1].paths)
       /\ KeySetOf(indexRec') = {given[i] : i \in DOMAIN given}]_vars

\* a write has succeeded that was given a key twice and keys out of order
C15_Witness ==
  /\ indexTask.pc = "done" /\ indexTask.wrote /\ call = "ok"
  /\ LET given == IndexArgument(indexTask) IN
     /\ Cardinality({given[i] : i \in DOMAIN given}) = 2
     /\ Len(given) = 3
     /\ ~KeyLess(given[2], given[3])

\* C16: add(key) and remove(key), run with no other Index operation, leave
\* the Index holding the previous keys plus key, respectively minus key, also
\* when a Remote Store call inside the operation fails.
C16_IndexAddRemoveFrame ==
  [][(indexTask.pc \in {"read", "write"} /\ indexTask'.pc = "done"
        /\ indexTask.op # "read") =>
       KeySetOf(indexRec') =
         IF indexTask.op = "add"
         THEN KeySetOf(indexTask.before) \cup {indexTask.path}
         ELSE KeySetOf(indexTask.before) \ {indexTask.path}]_vars

(***************************************************************************)
(* Properties of the synchronizer: cache, Index and failure reports        *)
(***************************************************************************)
\* C17: whenever a load, a save or a delete completes, the cache snapshot of
\* the identity is the in-memory list that the operation produced, the first
\* load after the wallet's initialization included.
C17_CacheIsWrittenThrough ==
  [][(event' \in {"loadOk", "saveOk", "deleteOk"}) => cache' = <<notes'>>]_vars

\* C18: whenever no load, save or delete is in progress and none has ended
\* with a failure notification, the documents of the in-memory list, and of
\* the cache once written, are those whose keys the Index lists.
C18_ListMatchesIndex ==
  (saveTask.pc = "idle" /\ deleteTask.pc = "idle" /\ loadTask.pc = "idle"
     /\ ~surfaced) =>
    /\ KeysOf(notes) = KeySetOf(indexRec)
    /\ cache # <<>> => KeysOf(cache[1]) = KeySetOf(indexRec)

\* a step of the save, respectively of the delete, in which its store call
\* failed
SaveCallFailed == saveTask' # saveTask /\ call' \in {"fail", "unreachable"}
DeleteCallFailed == deleteTask' # deleteTask /\ call' \in {"fail", "unreachable"}

\* C19: a save or delete whose set or remove of the document has failed on
\* the last attempt of the Retry Policy, or whose write of the Index has
\* failed, ends with a failure notification naming the operation and never
\* reports success.
C19_ExhaustedFailureSurfaces ==
  [][/\ (saveTask.pc \in {"s_set", "s_remove"} /\ saveTask.i = Attempts - 1
           /\ SaveCallFailed) =>
          event' \in {"saveError", "saveUnreachable"}
     /\ (saveTask.pc = "s_addidx_write" /\ SaveCallFailed) =>
          event' \in {"saveError", "saveUnreachable"}
     /\ (deleteTask.pc = "d_remove" /\ deleteTask.i = Attempts - 1
           /\ DeleteCallFailed) =>
          event' \in {"deleteError", "deleteUnreachable"}
     /\ (deleteTask.pc = "d_rmidx_write" /\ DeleteCallFailed) =>
          event' \in {"deleteError", "deleteUnreachable"}]_vars

\* C20: a save or delete that gives up on a store call failing with the
\* "store unreachable" signal ends with the connectivity notice raised and no
\* generic error, one that gives up on any other failure ends with the
\* generic error and leaves the connectivity notice alone; a load whose last
\* store call fails with the "store unreachable" signal ends with the
\* connectivity notice raised.
C20_UnreachableIsDistinguished ==
  [][/\ (saveTask.pc \in {"s_set", "s_remove"} /\ saveTask.i = Attempts - 1
           /\ SaveCallFailed) =>
          IF call' = "unreachable"
          THEN event' = "saveUnreachable" /\ showMetanetNotification'
          ELSE event' = "saveError"
                 /\ showMetanetNotification' = showMetanetNotification
     /\ (deleteTask.pc = "d_remove" /\ deleteTask.i = Attempts - 1
           /\ DeleteCallFailed) =>
          IF call' = "unreachable"
          THEN event' = "deleteUnreachable" /\ showMetanetNotification'
          ELSE event' = "deleteError"
                 /\ showMetanetNotification' = showMetanetNotification
     /\ (loadTask.pc # "idle" /\ loadTask'.pc = "idle" /\ call' = "unreachable") =>
          event' = "loadUnreachable" /\ showMetanetNotification']_vars

(***************************************************************************)
(* Properties of the local cache                                           *)
(***************************************************************************)
\* C21: the cache is isolated by identity.  Two browsers whose localStorage
\* differs only in the entry of another identity, running the same session,
\* hold the same entry at the cache key of Identity at all times, and show the
\* same documents whenever Identity is the current identity.
C21_CacheIsolatedByIdentity ==
  /\ localStorage[1][GetCacheKey(Identity)] = localStorage[2][GetCacheKey(Identity)]
  /\ cacheTask.identityKey = <<Identity>> => cacheTask.notes[1] = cacheTask.notes[2]

(***************************************************************************)
(* Properties of the scheduler: status and flags                           *)
(***************************************************************************)
\* what status shows t ticks after an execution settled, the display window
\* being w: the settled status during the window, idle from its end on (the
\* reset timer is due at tick w)
ShownAfter(status, w) ==
  IF sinceSettle < w THEN saveStatus = status
  ELSE IF sinceSettle = w THEN saveStatus = "idle" \/ (saveStatus = status /\ statusResets[0] > 0)
  ELSE saveStatus = "idle"

\* C23: an execution enters with the pending flag cleared, inFlightFlag set
\* and status saving; after a successful execution, no scheduler call being
\* made, status is saved for 2 seconds and idle from then on; after a failed
\* one it is error for 3 seconds and idle from then on.
C23_StatusWindows ==
  [][/\ running' > running =>
          ~hasPendingRef' /\ isSavingRef' /\ saveStatus' = "saving"
     /\ settled' = "ok" => ShownAfter("saved", SavedWindow)'
     /\ settled' = "failed" => ShownAfter("error", ErrorWindow)']_vars

\* C29: status is consistent with the flags: whenever status is idle no change
\* is pending (pending flag false, no debounce timer armed) and no save is in
\* flight.
C29_IdleMeansNothingPending ==
  saveStatus = "idle" => ~hasPendingRef /\ timeoutRef = {} /\ ~isSavingRef

(***************************************************************************)
(* Properties of the synchronizer: the steps of a save                     *)
(***************************************************************************)
\* a store call of the save in progress has returned
SaveStep == saveTask # Idle /\ saveTask' # saveTask /\ call' # "none"

RenameSteps == <<"remove", "indexRemove", "set", "indexAdd">>

C25_IndexWriteIsRetried ==
  [][/\ (saveTask.pc = "s_addidx_write" /\ SaveCallFailed) =>
          saveTask'.pc \in {"s_addidx_read", "s_addidx_write"}
     /\ (saveTask.pc = "s_rmidx_write" /\ SaveCallFailed) =>
          saveTask'.pc \in {"s_rmidx_read", "s_rmidx_write"}
     /\ (deleteTask.pc = "d_rmidx_write" /\ DeleteCallFailed) =>
          deleteTask'.pc \in {"d_rmidx_read", "d_rmidx_write"}]_vars

\* C26: after a successful save the list has the saved document as its first
\* element, no other entry with the saved key and none with the prior key of
\* the document, and every other previous entry exactly once in unchanged
\* relative order; the cache holds exactly this list.
C26_ListAfterSave ==
  [][event' = "saveOk" =>
       LET t == saveTask
           gone == {t.filename} \cup {t.sel[i].tokenId : i \in DOMAIN t.sel}
           Kept(n) == n.tokenId \notin gone IN
       /\ notes' # <<>>
       /\ Head(notes') = [tokenId |-> t.filename, title |-> t.title,
                          contents |-> t.content, format |-> t.format,
                          timestamp |-> t.stamp]
       /\ \A i \in 2..Len(notes') : notes'[i].tokenId \notin gone
       /\ Tail(notes') = SelectSeq(notes, Kept)
       /\ \A i, j \in DOMAIN notes' : notes'[i].tokenId = notes'[j].tokenId => i = j
       /\ cache' = <<notes'>>]_vars

\* a save has just succeeded with another document in the list
C26_Witness == event = "saveOk" /\ Len(notes) >= 2 /\ cache = <<notes>>

\* C27: the read-modify-write cycles of the Index are not mutually exclusive.
\* The record a cycle writes is computed from what the cycle itself read
\* earlier, whatever the Index holds by the time of the write, so that a cycle
\* of another operation that wrote in between is undone (C27_Witness: a delete
\* and a save of another key both completed, no store call failed, and the
\* Index still lists the deleted key).
C27_IndexCyclesOverlap ==
  [][/\ (saveTask.pc = "s_addidx_write" /\ saveTask' # saveTask /\ call' = "ok") =>
          indexRec' = <<StringifyPaths(UniqueSorted(
                          Append(saveTask.idx, saveTask.filename)))>>
     /\ (deleteTask.pc = "d_rmidx_write" /\ deleteTask' # deleteTask /\ call' = "ok") =>
          indexRec' = <<StringifyPaths(UniqueSorted(
                          Without(deleteTask.idx, deleteTask.key)))>>]_vars

\* a lost update: the save of one key has just completed, the delete of
\* another key completed before it, no store call has failed, the deleted
\* document is gone from the Remote Store and its key is still in the Index
C27_Witness ==
  /\ event = "saveOk" /\ deleteTask = Idle /\ nFail = 0
  /\ \E k \in deleted :
        /\ selectedNote # <<>> /\ selectedNote[1].tokenId # k
        /\ ~HasKey(k)
        /\ Includes(Index, k)

\* the list is ordered by timestamp, most recent first
ByTimestamp(list) ==
  \A i, j \in DOMAIN list : i < j => list[i].timestamp >= list[j].timestamp

\* C28: with every load, save and delete completed, the in-memory list is
\* ordered by timestamp non-increasing (documents without lastModified, of
\* timestamp 0, last).
C28_ListIsOrdered ==
  (saveTask = Idle /\ bgSave = Idle /\ deleteTask = Idle /\ loadTask = Idle) =>
    ByTimestamp(notes)


(***************************************************************************)
(* Properties of the scheduler driving saveNote.                            *)
(***************************************************************************)
\* the last step of the synchronizer ended a save with a failure notification
SaveJustFailed == event \in {"saveError", "saveUnreachable"}

\* C30: in the composed system the execution whose save failed (the document
\* write still failing after the retries) ends with status error, never saved.
C30_FailedSaveEndsInError ==
  [][(SaveJustFailed /\ running' < running) => saveStatus' = "error"]_vars

\* the progress of a saveNote call: its position, the attempts made and the
\* store steps completed
SaveProgress(t) ==
  IF t.pc = "idle" THEN t ELSE [t EXCEPT !.touched = FALSE, !.detached = FALSE]

\* the step ends the save after its last store call, or on the failure of a
\* call that withRetry does not repeat any more
CompletedOrExhausted ==
  \/ /\ event' = "saveOk"
     /\ saveTask.pc \in {"s_addidx_read", "s_addidx_write"}
     /\ saveTask.log = IF saveTask.rename THEN <<"remove", "indexRemove", "set">>
                                          ELSE <<"set">>
  \/ /\ event' \in {"saveError", "saveUnreachable"}
     /\ call' \in {"fail", "unreachable"}
     /\ ~Retries(saveTask.i)

\* while a save is in progress a step either leaves its progress alone or is
\* one of its store calls, which ends it only completed or exhausted
SaveNotAborted ==
  [][saveTask.pc # "idle" =>
       \/ SaveProgress(saveTask') = SaveProgress(saveTask)
       \/ /\ call' # "none"
          /\ saveTask'.pc = "idle" => CompletedOrExhausted]_vars

\* C22: a save that has started runs to completion (success, or failure with
\* the attempts exhausted) when every store call returns: cancelSave, flush,
\* the unmount of the editor and going back to the list neither end it nor
\* skip a step of it, and the in-flight flag is cleared in the end.
C22_SaveRunsToCompletion ==
  /\ SaveNotAborted
  /\ (saveTask.pc # "idle") ~> (saveTask.pc = "idle")
  /\ isSavingRef ~> ~isSavingRef

\* C22: a save has completed after the user went back to the list and the
\* editor unmounted.
C22_Witness ==
  event = "saveOk" /\ view = "grid" /\ editor = <<>> /\ saveTask.pc = "idle"


(***************************************************************************)
(* Properties of the stored documents.                                      *)
(***************************************************************************)
\* parseNoteMessage gives back the contents, format and lastModified of d
RoundTrips(d) ==
  LET back == ParseNoteMessage(StringifyNoteData(d)) IN
  /\ back.contents = d.contents
  /\ back.format = d.format
  /\ back.lastModified = d.lastModified

\* C31: every value the synchronizer has stored (the store starts empty, so
\* each is stringifyNoteData(d) of a saved document d) is read back by a load
\* as d's contents, format and lastModified.
C31_SaveLoadRoundTrip ==
  \A e \in kv : e[2] = StringifyNoteData(e[2].json) /\ RoundTrips(e[2].json)


\* the save in progress writes the document it was called for under a key
\* that is not its own and that the store holds for another document
TakesKeyOfAnother ==
  /\ saveTask.pc = "s_set"
  /\ saveTask.sel # <<>>
  /\ saveTask.sel[1].tokenId # saveTask.filename
  /\ HasKey(saveTask.filename)

\* C32: a save of one document under a title whose key another document
\* holds leaves the stored value of that other document as it is.
C32_SaveKeepsOtherDocument ==
  [][TakesKeyOfAnother => \A e \in kv : e[1] = saveTask.filename => e \in kv']_vars


\* no two entries of the list have the same key
DistinctKeys(list) ==
  \A i, j \in DOMAIN list : i # j => list[i].tokenId # list[j].tokenId

\* C33: the in-memory list never holds two entries with the same key, whatever
\* the interleaving of loads, saves and deletes over a store that only this
\* program has written.
C33_NoDuplicateKeys == DistinctKeys(notes)

\* C33: a list of two documents has been loaded after saves.
C33_Witness == Len(notes) >= 2 /\ event = "loadOk"


\* the entry n of the list is what the Remote Store holds: the Index lists its
\* key and the value stored at the key is read as n
Persisted(n) ==
  /\ Includes(ReadIndex("ok"), n.tokenId)
  /\ HasKey(n.tokenId)
  /\ LoadedNote(n.tokenId, ValueAt(n.tokenId)) = n

\* C34: a load that completes does not undo a completed save in memory: an
\* entry of the list that the Remote Store holds as shown, no save or delete
\* being in progress and no store call having failed, is in the list the load
\* produces, and in the cache snapshot it writes.
C34_LoadKeepsSavedDocument ==
  [][(event' = "loadOk" /\ nFail' = 0 /\ saveTask.pc = "idle"
        /\ deleteTask.pc = "idle") =>
       \A i \in DOMAIN notes : Persisted(notes[i]) =>
          /\ \E j \in DOMAIN notes' : notes'[j] = notes[i]
          /\ cache' # <<>> => \E j \in DOMAIN cache'[1] : cache'[1][j] = notes[i]]_vars


\* C35: whatever the user does (edits, going back to the list while a save
\* runs in the background, opening a document again), two executions of
\* saveNote are never in progress at the same time.
C35_OneSaveAtATime == ~(saveTask.pc # "idle" /\ bgSave.pc # "idle")


\* a step of a save that renames nothing in which the write of the document
\* failed
DocumentWriteFailed ==
  /\ saveTask.pc = "s_set"
  /\ ~saveTask.rename
  /\ saveTask' # saveTask
  /\ call' \in {"fail", "unreachable"}

\* C36: a save that renames nothing and whose write of the document fails,
\* on any attempt and on the last one, leaves the list, the cache snapshot,
\* the Index, the store, the selected document and the new-document flag as
\* they are; when it has given up and the editor was not touched since the
\* call, the next save is not taken for a save of nothing changed.
C36_FailedSaveChangesNothing ==
  [][DocumentWriteFailed =>
       /\ UNCHANGED <<notes, cache, indexRec, kv, selectedNote, isNewNote>>
       /\ (saveTask'.pc = "idle" /\ ~saveTask.touched) =>
            /\ event' \in {"saveError", "saveUnreachable"}
            /\ ~Unchanged']_vars

\* C36: the save of a new document has given up on its write, the editor
\* still open on it.
C36_Witness ==
  /\ event \in {"saveError", "saveUnreachable"}
  /\ call \in {"fail", "unreachable"}
  /\ view = "editor" /\ isNewNote /\ selectedNote # <<>>
  /\ ~Unchanged


\* an attempt of kvStore.remove (line 789) has just failed
RemovalFailed ==
  /\ deleteTask.pc = "d_remove"
  /\ deleteTask' # deleteTask
  /\ call' \in {"fail", "unreachable"}

\* C37: a delete whose removal from the store fails leaves the Index, the
\* store, the list, the cache snapshot, the selected document and the view
\* as they were, and when withRetry has given up the failure is shown: the
\* error toast, or the connectivity notice for the unreachable signal
C37_FailedDeleteChangesNothing ==
  [][RemovalFailed =>
       /\ UNCHANGED <<indexRec, kv, notes, cache, selectedNote, view>>
       /\ deleteTask'.pc = "idle" =>
            /\ event' \in {"deleteError", "deleteUnreachable"}
            /\ surfaced'
            /\ (event' = "deleteUnreachable") => showMetanetNotification']_vars

\* C37: a delete has given up on the removal and the document is still listed,
\* stored and indexed
C37_Witness ==
  /\ event \in {"deleteError", "deleteUnreachable"}
  /\ call \in {"fail", "unreachable"}
  /\ deleteTask.pc = "idle"
  /\ deleted = {}
  /\ Len(notes) >= 1
  /\ \A i \in DOMAIN notes : Persisted(notes[i])


(***************************************************************************)
(* Properties of the connectivity notice                                   *)
(***************************************************************************)
\* an initializeWallet call has just ended
InitEnded == initTask.pc = "i_auth" /\ initTask'.pc = "idle"

\* lines 409-411 and 418-420: what the end of a call leaves behind
InitOutcome ==
  [][InitEnded =>
       /\ call' = "ok" =>
            /\ ~showMetanetNotification'
            /\ kvStore'
            /\ loadTask'.pc # "idle"
       /\ call' = "unreachable" =>
            /\ showMetanetNotification'
            /\ event' = "initUnreachable"
            /\ event' # "initError"]_vars

\* lines 361-370: the interval calls initializeWallet (until the operation
\* bound of the model is used up)
NoticeRetried ==
  (showMetanetNotification /\ initTask.pc = "idle")
     ~> (initTask.pc = "i_auth" \/ ~showMetanetNotification \/ nOps = MaxOps)

\* C38: while the connectivity notice is shown initializeWallet is called
\* again; a call that succeeds dismisses the notice, sets the store and
\* starts a load; a call that fails with the unreachable signal raises the
\* notice and shows no error toast
C38_NoticeIsAutoRetried == InitOutcome /\ NoticeRetried

\* C38: the notice was up, the interval called initializeWallet again and
\* this call has just succeeded
C38_Witness ==
  /\ nFail = 1 /\ nOps >= 1
  /\ call = "ok"
  /\ initTask.pc = "idle" /\ loadTask.pc = "l_index"
  /\ kvStore /\ ~showMetanetNotification

=============================================================================
